---- MODULE Spec2Model ----
(***************************************************************************)
(* A model of the regex core: the compiler of src/src/compile.rs and the   *)
(* NFA simulation of src/src/nfa.rs (with the capture storage of           *)
(* src/src/captures.rs).  Instruction pointers, capture slots, sub-pattern *)
(* indices and input positions are 0-based as in the source; TLA+          *)
(* sequences are 1-based, so element i of a vector v is v[i + 1].          *)
(***************************************************************************)
EXTENDS Integers, Sequences, FiniteSets, TLC

\* ------------------------------------------------------------------ bounds

\* Longest input text explored.
MaxLen == 3

\* Largest repetition count of the expressions compiled on their own.
MaxCount == 4

\* ------------------------------------------------------------ basic values

\* Option::None of an Option<usize> (a capture slot, a match slot).
None == 0 - 1

\* The characters of the input texts.
Sigma == {"a", "b"}

\* size_of::<Inst>() in bytes.
InstSize == 32

\* SetExecBuilder::new: size_limit: 10 * (1 << 20).
DefaultSizeLimit == 10 * 1048576

Idx(v, i) == v[i + 1]

ReverseKept(s) == s

RECURSIVE Reverse(_)
Reverse(s) == IF s = <<>> THEN <<>> ELSE Append(Reverse(Tail(s)), Head(s))

\* --------------------------------------------------- syntax::Expr (the AST)

Empty == [k |-> "Empty"]
Literal(chars) == [k |-> "Literal", chars |-> chars, casei |-> FALSE]
LiteralI(chars) == [k |-> "Literal", chars |-> chars, casei |-> TRUE]
AnyChar == [k |-> "AnyChar"]
Class(cs) == [k |-> "Class", cls |-> cs]
StartText == [k |-> "StartText"]
EndText == [k |-> "EndText"]
WordBoundary == [k |-> "WordBoundary"]
NotWordBoundary == [k |-> "NotWordBoundary"]
\* Group { e, i: None, name: None }
NGroup(e) == [k |-> "Group", e |-> e, i |-> None, name |-> "None"]
\* Group { e, i: Some(i), name }
Group(e, i, name) == [k |-> "Group", e |-> e, i |-> i, name |-> name]
Concat(es) == [k |-> "Concat", es |-> es]
Alternate(es) == [k |-> "Alternate", es |-> es]
Repeat(e, r, greedy) ==
    [k |-> "Repeat", e |-> e, r |-> r, min |-> 0, max |-> None, greedy |-> greedy]
\* Repeater::Range { min, max }, max = None for an open range
RepeatRange(e, min, max, greedy) ==
    [k |-> "Repeat", e |-> e, r |-> "Range", min |-> min, max |-> max,
     greedy |-> greedy]

\* CharClass::case_fold of the one-character class [c]: c and its other case.
CaseFold(c) ==
    CASE c = "a" -> {"a", "A"}
      [] c = "b" -> {"b", "B"}
      [] c = "c" -> {"c", "C"}
      [] OTHER -> {c}

\* ----------------------------------------------- compile.rs: the Compiler
\* Instructions as the compiler emits them: Save(n), Char(c), Ranges(cs),
\* EmptyLook(look), Split(x, y), Jump(x), Match.

ISave(n) == [op |-> "Save", n |-> n]
IChar(c) == [op |-> "Char", c |-> c]
IRanges(cs) == [op |-> "Ranges", cs |-> cs]
IEmptyLook(look) == [op |-> "EmptyLook", look |-> look]
ISplit(x, y) == [op |-> "Split", x |-> x, y |-> y]
IJump(x) == [op |-> "Jump", x |-> x]
IMatch == [op |-> "Match"]

\* Compiler::new
NewCompiler(size_limit) ==
    [size_limit |-> size_limit, insts |-> <<>>, cap_names |-> <<"None">>,
     reverse |-> FALSE, err |-> FALSE]

push(self, x) == [self EXCEPT !.insts = Append(@, x)]

\* empty_split / empty_jump return the index of the placeholder, which is
\* Len(self.insts) before the push.
empty_split(self) == push(self, ISplit(0, 0))
empty_jump(self) == push(self, IJump(0))

set_split_swapped(self, i, pc1, pc2) ==
    [self EXCEPT !.insts[i + 1] = ISplit(pc2, pc1)]

set_split_beyond(self, i, pc1, pc2) ==
    [self EXCEPT !.insts[i + 1] = ISplit(pc1 + 2, pc2 + 2)]

set_split(self, i, pc1, pc2) ==
    [self EXCEPT !.insts[i + 1] = ISplit(pc1, pc2)]

set_jump_skipped(self, i, pc) == self

set_jump(self, i, pc) ==
    [self EXCEPT !.insts[i + 1] = IJump(pc)]

RECURSIVE set_jumps(_, _, _)
set_jumps(self, jmps, end) ==
    IF jmps = <<>> THEN self
    ELSE set_jumps(set_jump(self, Head(jmps), end), Tail(jmps), end)

check_size_off(self) == self

check_size(self) ==
    IF Len(self.insts) * InstSize > self.size_limit
    THEN [self EXCEPT !.err = TRUE]
    ELSE self

RECURSIVE c(_, _)
RECURSIVE c_literal(_, _, _)
RECURSIVE c_seq(_, _)
RECURSIVE c_times(_, _, _)
RECURSIVE c_alternate(_, _, _)
RECURSIVE c_range_tail(_, _, _, _, _)
RECURSIVE set_splits(_, _, _, _, _)

\* for c in it { if casei { try!(c(Class(case_fold))) } else { push(Char(c)) } }
c_literal(self, chars, casei) ==
    IF chars = <<>> THEN self
    ELSE LET s1 == IF casei THEN c(self, Class(CaseFold(Head(chars))))
                   ELSE push(self, IChar(Head(chars)))
         IN IF s1.err THEN s1 ELSE c_literal(s1, Tail(chars), casei)

\* for e in es { try!(self.c(e)) }
c_seq(self, es) ==
    IF es = <<>> THEN self
    ELSE LET s1 == c(self, Head(es))
         IN IF s1.err THEN s1 ELSE c_seq(s1, Tail(es))

\* for _ in 0..n { try!(self.c(e)) }
c_times(self, e, n) ==
    IF n <= 0 THEN self
    ELSE LET s1 == c(self, e)
         IN IF s1.err THEN s1 ELSE c_times(s1, e, n - 1)

\* The loop over es[0..len-1] of the Alternate arm, then the last
\* alternative and the patching of the jumps to the end.
c_alternate(self, es, jmps_to_end) ==
    IF Len(es) = 1
    THEN LET s1 == c(self, Head(es))
         IN IF s1.err THEN s1 ELSE set_jumps(s1, jmps_to_end, Len(s1.insts))
    ELSE LET split == Len(self.insts)
             s1 == empty_split(self)
             j1 == Len(s1.insts)
             s2 == c(s1, Head(es))
             jmp == Len(s2.insts)
             s3 == empty_jump(s2)
             j2 == Len(s3.insts)
         IN IF s2.err THEN s2
            ELSE c_alternate(set_split(s3, split, j1, j2), Tail(es),
                             Append(jmps_to_end, jmp))

\* for _ in min..max { splits.push(empty_split()); starts.push(len); c(e) }
c_range_tail(self, e, n, splits, starts) ==
    IF n <= 0 THEN [st |-> self, splits |-> splits, starts |-> starts]
    ELSE LET split == Len(self.insts)
             s1 == empty_split(self)
             start == Len(s1.insts)
             s2 == c(s1, e)
         IN IF s2.err THEN [st |-> s2, splits |-> splits, starts |-> starts]
            ELSE c_range_tail(s2, e, n - 1, Append(splits, split),
                              Append(starts, start))

RECURSIVE set_splits_chained(_, _, _, _, _)
set_splits_chained(self, splits, starts, end, greedy) ==
    IF splits = <<>> THEN self
    ELSE LET next == IF Len(splits) > 1 THEN splits[2] ELSE end
             s1 == IF greedy \/ self.reverse
                   THEN set_split(self, Head(splits), Head(starts), next)
                   ELSE set_split(self, Head(splits), next, Head(starts))
         IN set_splits_chained(s1, Tail(splits), Tail(starts), end, greedy)

\* for (split, start) in splits.zip(starts) { set_split(..) }
set_splits(self, splits, starts, end, greedy) ==
    IF splits = <<>> THEN self
    ELSE LET s1 == IF greedy \/ self.reverse
                   THEN set_split(self, Head(splits), Head(starts), end)
                   ELSE set_split(self, Head(splits), end, Head(starts))
         IN set_splits(s1, Tail(splits), Tail(starts), end, greedy)

c_group_nameless(self, ast) ==
    IF ast.i = None THEN c(self, ast.e)
    ELSE LET s1 == push(self, ISave(2 * ast.i))
             s2 == c(s1, ast.e)
         IN IF s2.err THEN s2 ELSE push(s2, ISave(2 * ast.i + 1))

c_group(self, ast) ==
    IF ast.i = None THEN c(self, ast.e)
    ELSE LET s1 == push([self EXCEPT !.cap_names = Append(@, ast.name)],
                        ISave(2 * ast.i))
             s2 == c(s1, ast.e)
         IN IF s2.err THEN s2 ELSE push(s2, ISave(2 * ast.i + 1))

c_zero_or_one(self, ast) ==
    LET split == Len(self.insts)
        s1 == empty_split(self)
        j1 == Len(s1.insts)
        s2 == c(s1, ast.e)
        j2 == Len(s2.insts)
    IN IF s2.err THEN s2
       ELSE IF ast.greedy \/ self.reverse
            THEN set_split(s2, split, j1, j2)
            ELSE set_split(s2, split, j2, j1)

c_zero_or_more(self, ast) ==
    LET j1 == Len(self.insts)
        split == j1
        s1 == empty_split(self)
        j2 == Len(s1.insts)
        s2 == c(s1, ast.e)
        jmp == Len(s2.insts)
        s3 == empty_jump(s2)
        j3 == Len(s3.insts)
        s4 == set_jump(s3, jmp, j1)
    IN IF s2.err THEN s2
       ELSE IF ast.greedy \/ self.reverse
            THEN set_split(s4, split, j2, j3)
            ELSE set_split(s4, split, j3, j2)

c_one_or_more_flagged(self, ast) ==
    LET j1 == Len(self.insts)
        s1 == c(self, ast.e)
        split == Len(s1.insts)
        s2 == empty_split(s1)
        j2 == Len(s2.insts)
    IN IF s1.err THEN s1
       ELSE IF ast.greedy
            THEN set_split(s2, split, j1, j2)
            ELSE set_split(s2, split, j2, j1)

c_one_or_more(self, ast) ==
    LET j1 == Len(self.insts)
        s1 == c(self, ast.e)
        split == Len(s1.insts)
        s2 == empty_split(s1)
        j2 == Len(s2.insts)
    IN IF s1.err THEN s1
       ELSE IF ast.greedy \/ self.reverse
            THEN set_split(s2, split, j1, j2)
            ELSE set_split(s2, split, j2, j1)

c_range(self, ast) ==
    LET s1 == c_times(self, ast.e, ast.min)
    IN IF s1.err THEN s1
       ELSE IF ast.max = None
            THEN c(s1, Repeat(ast.e, "ZeroOrMore", ast.greedy))
            ELSE LET t == c_range_tail(s1, ast.e, ast.max - ast.min, <<>>, <<>>)
                 IN IF t.st.err THEN t.st
                    ELSE set_splits(t.st, t.splits, t.starts, Len(t.st.insts),
                                    ast.greedy)

c(self, ast) ==
    IF ast.k = "Alternate" /\ Len(ast.es) = 0 THEN self
    ELSE LET r ==
           CASE ast.k = "Empty" -> self
             [] ast.k = "Literal" ->
                  c_literal(self,
                            IF self.reverse THEN Reverse(ast.chars) ELSE ast.chars,
                            ast.casei)
             [] ast.k = "AnyChar" -> push(self, IRanges(Sigma \cup {"A", "B", "c", "C", " "}))
             [] ast.k = "Class" ->
                  IF Cardinality(ast.cls) = 1
                  THEN push(self, IChar(CHOOSE x \in ast.cls : TRUE))
                  ELSE push(self, IRanges(ast.cls))
             [] ast.k \in {"StartLine", "EndLine", "StartText", "EndText",
                           "WordBoundary", "NotWordBoundary"} ->
                  push(self, IEmptyLook(ast.k))
             [] ast.k = "Group" -> c_group(self, ast)
             [] ast.k = "Concat" ->
                  c_seq(self, IF self.reverse THEN Reverse(ast.es) ELSE ast.es)
             [] ast.k = "Alternate" -> c_alternate(self, ast.es, <<>>)
             [] ast.k = "Repeat" /\ ast.r = "ZeroOrOne" -> c_zero_or_one(self, ast)
             [] ast.k = "Repeat" /\ ast.r = "ZeroOrMore" -> c_zero_or_more(self, ast)
             [] ast.k = "Repeat" /\ ast.r = "OneOrMore" -> c_one_or_more(self, ast)
             [] ast.k = "Repeat" /\ ast.r = "Range" -> c_range(self, ast)
         IN IF r.err THEN r ELSE check_size(r)

\* Compiler::compile: Ok((insts, cap_names)) is err = FALSE.
compile(self, ast) ==
    LET s1 == c(push(self, ISave(0)), ast)
    IN IF s1.err THEN s1 ELSE push(push(s1, ISave(1)), IMatch)

\* Compiler::compile_reverse
compile_reverse(self, ast) ==
    LET s1 == c(push([self EXCEPT !.reverse = TRUE], ISave(0)), ast)
    IN IF s1.err THEN s1 ELSE push(push(s1, ISave(1)), IMatch)

\* Result<Compiled, Error>: Ok(..) or Err(Error::CompiledTooBig(size_limit)).
\* The Err of check_size is handed on by every try!, so what the caller gets
\* on failure is the Err alone; self, with the instructions pushed so far, is
\* dropped.
CompiledTooBig(size_limit) == [error |-> "CompiledTooBig", limit |-> size_limit]
Ok(v) == [ok |-> TRUE, v |-> v]
Err(e) == [ok |-> FALSE, e |-> e]
NotCompiled == [ok |-> FALSE, e |-> "none"]

\* compile: Ok((self.insts, self.cap_names))
Compiled(self) ==
    IF self.err THEN Err(CompiledTooBig(self.size_limit))
    ELSE Ok([insts |-> self.insts, cap_names |-> self.cap_names])

\* compile_reverse: Ok(self.insts)
CompiledReverse(self) ==
    IF self.err THEN Err(CompiledTooBig(self.size_limit))
    ELSE Ok([insts |-> self.insts])

\* ------------------------------------------- program assembly (Program)
\* The instructions the NFA executes carry their successor: Match(match_slot),
\* Save{match_slot, capture_slot, goto}, Split{goto1, goto2}, Char{c, goto},
\* Ranges{.., goto}, EmptyLook{look, goto}.  There is no Jump among them:
\* a Jump of the compiler's output is resolved into the targets that reach it.

\* The instruction a target reaches once the Jumps on the way are followed.
RECURSIVE Resolve(_, _)
Resolve(insts, t) ==
    IF Idx(insts, t).op = "Jump" THEN Resolve(insts, Idx(insts, t).x) ELSE t

\* Index of instruction t once the Jumps before it are dropped.
NewIdx(insts, t) == Cardinality({p \in 0..(t - 1) : Idx(insts, p).op # "Jump"})

Target(insts, base, t) == base + NewIdx(insts, Resolve(insts, t))

LinkInst(insts, base, ms, p) ==
    LET in == Idx(insts, p)
    IN CASE in.op = "Match" -> [op |-> "Match", match_slot |-> ms]
         [] in.op = "Save" ->
              [op |-> "Save", match_slot |-> ms, capture_slot |-> in.n,
               goto |-> Target(insts, base, p + 1)]
         [] in.op = "Split" ->
              [op |-> "Split", goto1 |-> Target(insts, base, in.x),
               goto2 |-> Target(insts, base, in.y)]
         [] in.op = "Char" ->
              [op |-> "Char", c |-> in.c, goto |-> Target(insts, base, p + 1)]
         [] in.op = "Ranges" ->
              [op |-> "Ranges", cs |-> in.cs, goto |-> Target(insts, base, p + 1)]
         [] in.op = "EmptyLook" ->
              [op |-> "EmptyLook", look |-> in.look,
               goto |-> Target(insts, base, p + 1)]

RECURSIVE LinkFrom(_, _, _, _)
LinkFrom(insts, base, ms, p) ==
    IF p >= Len(insts) THEN <<>>
    ELSE IF Idx(insts, p).op = "Jump" THEN LinkFrom(insts, base, ms, p + 1)
    ELSE <<LinkInst(insts, base, ms, p)>> \o LinkFrom(insts, base, ms, p + 1)

\* The code of sub-pattern ms placed at address base.
Link(insts, base, ms) == LinkFrom(insts, base, ms, 0)

\* ProgramBuilder::new_many: a top-level Split chain forks into each
\* sub-pattern's code; sub-pattern k ends with its own Match(k).
RECURSIVE LinkMany(_, _, _)
LinkMany(compiled, k, acc) ==
    IF k > Len(compiled) THEN acc
    ELSE LET base == Len(acc)
             body == compiled[k].insts
         IN IF k = Len(compiled)
            THEN LinkMany(compiled, k + 1, acc \o Link(body, base, k - 1))
            ELSE LET code == Link(body, base + 1, k - 1)
                     split == [op |-> "Split", goto1 |-> base + 1,
                               goto2 |-> base + 1 + Len(code)]
                 IN LinkMany(compiled, k + 1, (acc \o <<split>>) \o code)

\* anchored_begin: every sub-pattern begins with \A (the instruction after
\* its leading Save).
AnchoredBegin(compiled) ==
    \A k \in 1..Len(compiled) :
        /\ Len(compiled[k].insts) >= 2
        /\ compiled[k].insts[2] = IEmptyLook("StartText")

\* The literal prefix of a single pattern: the characters of its leading
\* case-sensitive Literal.
PrefixesOf(res) ==
    IF Len(res) # 1 THEN {}
    ELSE LET ast == res[1]
         IN CASE ast.k = "Literal" /\ ~ast.casei -> {ast.chars}
              [] ast.k = "Concat" /\ Len(ast.es) > 0 /\ ast.es[1].k = "Literal"
                 /\ ~ast.es[1].casei -> {ast.es[1].chars}
              [] OTHER -> {}

\* ProgramBuilder::compile for the patterns res (one pattern, or a set).
BuildProgram(res, size_limit) ==
    LET compiled == [k \in 1..Len(res) |->
                        compile(NewCompiler(size_limit), res[k])]
    IN [insts |-> LinkMany(compiled, 1, <<>>),
        anchored_begin |-> AnchoredBegin(compiled),
        prefixes |-> PrefixesOf(res),
        caps_len |-> [k \in 1..Len(res) |-> 2 * Len(compiled[k].cap_names)],
        err |-> \E k \in 1..Len(res) : compiled[k].err]

\* Program::alloc_captures: one row of empty slots per sub-pattern.
alloc_captures(p) ==
    [k \in 1..Len(p.caps_len) |-> [j \in 1..p.caps_len[k] |-> None]]

\* insts.matches().len(): the number of sub-patterns.
NumMatches(p) == Len(p.caps_len)

\* The sinks a caller hands to exec: capture(ms, cs) is None for a slot the
\* sink does not have (captures.rs line 36), which is how a caller asks for
\* no positions (no slots), for the overall span (two slots) or for every
\* group (alloc_captures).
SinkOf(p, n) ==
    [k \in 1..Len(p.caps_len) |->
        [j \in 1..(IF n <= p.caps_len[k] THEN n ELSE p.caps_len[k]) |-> None]]
SinkSlots == {0, 2}
Sinks(p) == {SinkOf(p, n) : n \in SinkSlots} \cup {alloc_captures(p)}

\* ------------------------------------------------------ the input adapter

\* The character of an InputAt past the end of the text.
NoChar == "eof"

\* at.char()
CharAt(txt, pos) == IF pos < Len(txt) THEN txt[pos + 1] ELSE NoChar

\* at.next_pos(): the position after the character at pos (pos itself at
\* the end of the text, where the character has length 0).
NextPos(txt, pos) == IF pos < Len(txt) THEN pos + 1 ELSE pos

is_beginning(pos) == pos = 0
is_end(txt, pos) == pos >= Len(txt)

previous_char(txt, pos) == IF pos > 0 THEN txt[pos] ELSE NoChar
next_char(txt, pos) == CharAt(txt, pos)

is_word_char(ch) ==
    ch \in {"a", "b", "c", "A", "B", "C", "d", "f", "o", "r", "s", "w"}

\* EmptyLook::matches(prev, next)
LookMatches(look, prev, next) ==
    CASE look = "StartText" -> prev = NoChar
      [] look = "EndText" -> next = NoChar
      [] look = "StartLine" -> prev = NoChar \/ prev = "\n"
      [] look = "EndLine" -> next = NoChar \/ next = "\n"
      [] look = "WordBoundary" -> is_word_char(prev) # is_word_char(next)
      [] look = "NotWordBoundary" -> is_word_char(prev) = is_word_char(next)

\* Does literal lit occur in txt at position pos?
OccursAt(txt, lit, pos) ==
    /\ pos + Len(lit) <= Len(txt)
    /\ \A j \in 1..Len(lit) : txt[pos + j] = lit[j]

\* text.prefix_at(prefixes, at): the next position >= at at which a prefix
\* literal occurs, or None.
prefix_at(txt, prefixes, pos) ==
    LET hits == {q \in pos..Len(txt) : \E lit \in prefixes : OccursAt(txt, lit, q)}
    IN IF hits = {} THEN None
       ELSE CHOOSE q \in hits : \A r \in hits : q <= r

\* ---------------------------------------------- captures.rs: CaptureSlots

num_matches(caps) == Len(caps)

\* capture(ms, cs) is Some(slot) exactly when row ms exists and has slot cs.
has_capture(caps, ms, cs) ==
    /\ ms < Len(caps)
    /\ cs < Len(caps[ms + 1])

capture(caps, ms, cs) == caps[ms + 1][cs + 1]

set_capture(caps, ms, cs, slot) == [caps EXCEPT ![ms + 1][cs + 1] = slot]

Min(a, b) == IF a <= b THEN a ELSE b

\* copy_from_match: dst.iter_mut().zip(src.iter()) over row ms.
copy_from_match(self, other, ms) ==
    [self EXCEPT ![ms + 1] =
        [j \in 1..Len(self[ms + 1]) |->
            IF j <= Len(other[ms + 1]) THEN other[ms + 1][j]
            ELSE self[ms + 1][j]]]

\* copy_from: copy_from_match for ms in 0..min(num_matches).
RECURSIVE copy_rows(_, _, _, _)
copy_rows(self, other, ms, n) ==
    IF ms >= n THEN self
    ELSE copy_rows(copy_from_match(self, other, ms), other, ms + 1, n)

copy_from_positions(self, other) ==
    [k \in 1..Len(self) |->
        [j \in 1..Len(self[k]) |->
            IF k <= Len(other) /\ j <= Len(other[k]) /\ other[k][j] # None
            THEN other[k][j] ELSE self[k][j]]]

copy_from(self, other) ==
    copy_rows(self, other, 0, Min(num_matches(self), num_matches(other)))

\* ------------------------------------------------------------- SparseSet

SparseSetNew(n) == [dense |-> <<>>, cap |-> n]
contains_ip(set, ip) == \E j \in 1..Len(set.dense) : set.dense[j] = ip
SetAdd(set, ip) == [set EXCEPT !.dense = Append(@, ip)]
SetClear(set) == [set EXCEPT !.dense = <<>>]
SetLen(set) == Len(set.dense)
SetIsEmpty(set) == set.dense = <<>>

\* ------------------------------------------------- the patterns explored

La == Literal(<<"a">>)
Lb == Literal(<<"b">>)

\* One entry per regex (a single pattern) or regex set (several).
\* The set of src/examples/set.rs, {[a-z]+?, abc}, and its input "abc"; the
\* class [a-z] is cut down to the lower-case letters that occur in the texts.
Lower == {"a", "b", "c"}
ExampleSet == <<Repeat(Class(Lower), "OneOrMore", FALSE),
                Literal(<<"a", "b", "c">>)>>
ExampleText == <<"a", "b", "c">>

\* The patterns and inputs of the spec's examples: ^foo on barfoo, a{2,4} on
\* aaaaa, \bword\b on "a word!" and on "sword".
AnchoredExample == <<Concat(<<StartText, Literal(<<"f", "o", "o">>)>>)>>
AnchoredText == <<"b", "a", "r", "f", "o", "o">>
RangeExample == <<RepeatRange(La, 2, 4, TRUE)>>
RangeText == <<"a", "a", "a", "a", "a">>
WordExample == <<Concat(<<WordBoundary, Literal(<<"w", "o", "r", "d">>),
                          WordBoundary>>)>>
WordTexts == {<<"a", " ", "w", "o", "r", "d", "!">>, <<"s", "w", "o", "r", "d">>}

Jobs == <<
    <<Literal(<<"a", "b">>)>>,                                    \* ab
    <<Concat(<<La, Group(Repeat(Lb, "OneOrMore", TRUE), 1, "None"),
               Repeat(La, "ZeroOrOne", TRUE)>>)>>,                 \* a(b+)a?
    <<Alternate(<<La, Literal(<<"a", "b">>)>>)>>,                 \* a|ab
    <<Alternate(<<Literal(<<"a", "b">>), La>>)>>,                 \* ab|a
    <<Repeat(Group(Repeat(La, "ZeroOrMore", TRUE), 1, "None"),
             "ZeroOrMore", TRUE)>>,                                \* (a*)*
    <<Concat(<<Repeat(NGroup(Alternate(<<La, La>>)), "ZeroOrMore", TRUE),
               Lb>>)>>,                                            \* (?:a|a)*b
    <<Concat(<<Repeat(La, "ZeroOrMore", FALSE), Lb>>)>>,          \* a*?b
    <<Repeat(La, "OneOrMore", FALSE)>>,                           \* a+?
    <<Concat(<<Repeat(La, "ZeroOrOne", FALSE), Lb>>)>>,           \* a??b
    <<RepeatRange(La, 1, 2, TRUE)>>,                              \* a{1,2}
    <<Concat(<<RepeatRange(La, 0, 2, FALSE), Lb>>)>>,             \* a{0,2}?b
    <<RepeatRange(Lb, 1, None, TRUE)>>,                           \* b{1,}
    <<Alternate(<<Group(La, 1, "x"), Lb>>)>>,                     \* (?P<x>a)|b
    <<Concat(<<StartText, La>>)>>,                                \* \Aa
    <<Concat(<<Lb, EndText>>)>>,                                  \* b\z
    <<Concat(<<WordBoundary, La>>)>>,                             \* \ba
    <<Concat(<<NotWordBoundary, Lb>>)>>,                          \* \Bb
    <<Empty>>,                                                    \* (empty)
    <<Repeat(AnyChar, "OneOrMore", TRUE)>>,                       \* .+
    <<Repeat(Class({"a", "b"}), "OneOrMore", FALSE)>>,            \* [ab]+?
    <<Concat(<<Repeat(NGroup(Alternate(<<La, Lb>>)), "ZeroOrMore", TRUE),
               La>>)>>,                                            \* (?:a|b)*a
    <<Concat(<<LiteralI(<<"a">>), Lb>>)>>,                        \* (?i:a)b
    <<Repeat(Group(Alternate(<<Group(La, 2, "None"), Lb>>), 1, "None"),
             "OneOrMore", TRUE)>>,                                 \* ((a)|b)+
    <<Concat(<<Repeat(La, "ZeroOrOne", TRUE), Repeat(Lb, "ZeroOrMore", TRUE),
               EndText>>)>>,                                       \* a?b*\z
    <<Repeat(Class({"a", "b"}), "OneOrMore", FALSE),
      Literal(<<"a", "b">>)>>,                                    \* {[ab]+?, ab}
    <<La, Lb>>,                                                   \* {a, b}
    <<Repeat(La, "ZeroOrMore", TRUE), Lb>>,                       \* {a*, b}
    <<Literal(<<"a", "b">>), Repeat(La, "OneOrMore", TRUE)>>,     \* {ab, a+}
    <<Concat(<<StartText, La>>), Concat(<<StartText, Lb>>)>>,     \* {\Aa, \Ab}
    <<Lb, Literal(<<"a", "b">>), Repeat(Lb, "OneOrMore", TRUE)>>, \* {b, ab, b+}
    ExampleSet,                                                   \* {[a-z]+?, abc}
    AnchoredExample,                                              \* ^foo
    RangeExample,                                                 \* a{2,4}
    WordExample,                                                  \* \bword\b
    <<RepeatRange(La, 1, 3, FALSE)>>,                             \* a{1,3}?
    <<RepeatRange(NGroup(Alternate(<<La, Lb>>)), 0, 2, TRUE)>>    \* (?:a|b){0,2}
>>

\* The expressions the compiler is run on by itself: the atoms, every
\* repetition, group, concatenation and alternation of them, and those once
\* more over the expressions built from the one-letter literals.
Atoms == {Empty, La, Literal(<<"a", "b">>), LiteralI(<<"a">>), AnyChar,
          Class({"a", "b"}), StartText, WordBoundary, Alternate(<<>>)}

Unary(S) ==
    {Repeat(e, r, g) : e \in S, r \in {"ZeroOrOne", "ZeroOrMore", "OneOrMore"},
                       g \in BOOLEAN}
    \cup UNION {{RepeatRange(e, r[1], r[2], g) : e \in S, g \in BOOLEAN} :
                   r \in {q \in (0..MaxCount) \X ({None} \cup 0..MaxCount) :
                              q[2] = None \/ q[1] <= q[2]}}
    \cup {NGroup(e) : e \in S}
    \cup {Group(e, 1, "x") : e \in S}

Binary(S) ==
    {Concat(<<x, y>>) : x \in S, y \in S}
    \cup {Alternate(<<x, y>>) : x \in S, y \in S}
    \cup {Alternate(<<x>>) : x \in S}
    \cup {Alternate(<<x, y, x>>) : x \in S, y \in S}

Small == {La, Lb} \cup Unary({La}) \cup Binary({La, Lb})

\* Expressions with two capturing groups, numbered as the parser numbers
\* them: side by side, nested, and under a counted repetition.
Gx == Group(La, 1, "x")
Gy == Group(Lb, 2, "y")
Numbered ==
    {Concat(<<Gx, Gy>>), Alternate(<<Gx, Gy>>),
     Group(Concat(<<La, Gy>>), 1, "x"),
     Group(Repeat(Gy, "ZeroOrMore", TRUE), 1, "None"),
     Concat(<<RepeatRange(Gx, 2, 2, TRUE), Gy>>),
     Concat(<<RepeatRange(Gx, 0, 0, TRUE), Gy>>),
     Concat(<<RepeatRange(Gx, 1, 2, FALSE), Gy>>),
     RepeatRange(Group(Concat(<<La, Gy>>), 1, "x"), 1, None, TRUE),
     Concat(<<Repeat(Gx, "OneOrMore", TRUE), Repeat(Gy, "ZeroOrOne", FALSE)>>)}

Asts ==
    Atoms \cup Unary(Atoms) \cup Binary(Atoms) \cup Unary(Small) \cup Binary(Small)
    \cup Numbered

SizeLimits == {0, InstSize, 2 * InstSize, 3 * InstSize, 4 * InstSize + 1,
               6 * InstSize, 12 * InstSize, DefaultSizeLimit}

Programs == [j \in 1..Len(Jobs) |-> BuildProgram(Jobs[j], DefaultSizeLimit)]

RECURSIVE TextsOfLen(_)
TextsOfLen(n) ==
    IF n = 0 THEN {<<>>}
    ELSE {Append(t, ch) : t \in TextsOfLen(n - 1), ch \in Sigma}

Texts == UNION {TextsOfLen(n) : n \in 0..MaxLen}

\* Texts with a character that is no word character, for the patterns with
\* a word-boundary assertion.
RECURSIVE BlankTextsOfLen(_)
BlankTextsOfLen(n) ==
    IF n = 0 THEN {<<>>}
    ELSE {Append(t, ch) : t \in BlankTextsOfLen(n - 1), ch \in Sigma \cup {" "}}

BlankTexts ==
    {t \in UNION {BlankTextsOfLen(n) : n \in 1..MaxLen} :
        \E n \in 1..Len(t) : t[n] = " "}

RECURSIVE HasLook(_)
HasLook(e) ==
    CASE e.k \in {"WordBoundary", "NotWordBoundary"} -> TRUE
      [] e.k \in {"Concat", "Alternate"} ->
           \E n \in 1..Len(e.es) : HasLook(e.es[n])
      [] e.k \in {"Group", "Repeat"} -> HasLook(e.e)
      [] OTHER -> FALSE

\* The inputs a job is run on besides Texts and ExampleText.
ExtraTexts(j) ==
    CASE Jobs[j] = AnchoredExample -> {AnchoredText}
      [] Jobs[j] = RangeExample -> {RangeText}
      [] Jobs[j] = WordExample -> WordTexts
      [] \E k \in 1..Len(Jobs[j]) : HasLook(Jobs[j][k]) -> BlankTexts
      [] OTHER -> {}

\* The inputs of the execution that runs between two executions on the
\* same input.
OtherInputs == {<<"a", "b", "a">>, <<"b", "b">>}

\* ------------------------------------------------------------ nfa.rs state

VARIABLES
    ast,            \* the Expr handed to Compiler::compile / compile_reverse
    compiler,       \* the Compiler (self)
    compiled,       \* the Result compile / compile_reverse returned
    job,            \* which entry of Jobs was compiled
    prog,           \* self.prog, the compiled Program the Nfa borrows
    text,           \* the input text
    start,          \* the start position handed to exec
    quit,           \* search.quit_after_first_match()
    captures,       \* search.captures, the caller's capture sink
    matches,        \* search.matches
    clist,          \* cache.clist : Threads
    nlist,          \* cache.nlist : Threads
    stack,          \* cache.stack : Vec<FollowEpsilon>
    seen_matches,   \* cache.seen_matches : SparseSet
    matched,        \* exec_: matched
    at,             \* exec_: at (the current position)
    i,              \* exec_: the index of the for loop over clist.set
    caller,         \* who called add: "seed" (line 176) or "step"
    match_slot,     \* add: *match_slot
    ip,             \* add_step: ip
    pc,             \* position in exec / exec_ / add / add_step
    ret,            \* the value exec returned
    phase,          \* which execution: "first", "twice", "other", "again",
                    \* "reused" or "flipped"
    first,          \* what the first execution returned and left in the sink,
                    \* and the sink this execution was handed
    orig,           \* the input of the first execution
    handed          \* add: the thread_caps and *match_slot of the call

vars == <<ast, compiler, compiled, job, prog, text, start, quit, captures, matches, clist, nlist, stack,
          seen_matches, matched, at, i, caller, match_slot, ip, pc, ret,
          phase, first, orig, handed>>

NumInsts == Len(prog.insts)

\* Threads::new
ThreadsNew == [set |-> SparseSetNew(0), caps |-> <<>>, match_slots |-> <<>>]

\* Threads::resize
resize(self, p) ==
    IF Len(p.insts) = self.set.cap THEN self
    ELSE [set |-> SparseSetNew(Len(p.insts)),
          caps |-> [n \in 1..Len(p.insts) |-> alloc_captures(p)],
          match_slots |-> [n \in 1..Len(p.insts) |-> None]]

\* FollowEpsilon frames
FrameIP(n) == [t |-> "IP", ip |-> n]
FrameCaptureForgetful(save, old_match_slot, old_capture_slot) ==
    [t |-> "Capture", save |-> save, old_match_slot |-> old_match_slot,
     old_capture_slot |-> None]

FrameCaptureSameSlot(save, old_match_slot, old_capture_slot) ==
    [t |-> "Capture", save |-> save, old_match_slot |-> save.match_slot,
     old_capture_slot |-> old_capture_slot]

FrameCapture(save, old_match_slot, old_capture_slot) ==
    [t |-> "Capture", save |-> save, old_match_slot |-> old_match_slot,
     old_capture_slot |-> old_capture_slot]

\* What add was called with (lines 298-299); NotHanded outside add.
Handed(tcaps, ms) == [thread_caps |-> tcaps, match_slot |-> ms]
NotHanded == [thread_caps |-> <<>>, match_slot |-> None]

\* vec![false; n]
NoMatches(p) == [k \in 1..NumMatches(p) |-> FALSE]

Init ==
    /\ ast = Empty
    /\ compiler = NewCompiler(DefaultSizeLimit)
    /\ compiled = NotCompiled
    /\ job \in 1..Len(Jobs)
    /\ prog = Programs[job]
    /\ text \in Texts \cup {ExampleText} \cup ExtraTexts(job)
    /\ start \in 0..Len(text)
    /\ quit \in BOOLEAN
    /\ captures = alloc_captures(prog)
    /\ matches = NoMatches(prog)
    /\ clist = ThreadsNew
    /\ nlist = ThreadsNew
    /\ stack = <<>>
    /\ seen_matches = SparseSetNew(0)
    /\ matched = FALSE
    /\ at = 0
    /\ i = 0
    /\ caller = "seed"
    /\ match_slot = None
    /\ ip = 0
    /\ pc = "exec"
    /\ ret = FALSE
    /\ phase = "first"
    /\ first = [ret |-> FALSE, matches |-> <<>>, captures |-> <<>>,
                sink |-> captures]
    /\ orig = [text |-> text, start |-> start]
    /\ handed = NotHanded

KeepSet(list) == list

\* exec_ lines 143-144: clist.set.clear(), nlist.set.clear().
ClearSet(list) == [list EXCEPT !.set = SetClear(@)]

\* Nfa::exec (lines 113-133) up to the loop of exec_ (lines 142-144).
Exec ==
    /\ pc = "exec"
    /\ clist' = ClearSet(resize(clist, prog))
    /\ nlist' = ClearSet(resize(nlist, prog))
    /\ seen_matches' = IF seen_matches.cap # NumInsts
                       THEN SparseSetNew(NumInsts) ELSE seen_matches
    /\ at' = start
    /\ matched' = FALSE
    /\ pc' = "loop"
    /\ UNCHANGED <<ast, compiler, compiled, job, prog, text, start, quit, captures, matches, stack, i, caller,
                   match_slot, ip, ret, phase, first, orig, handed>>

BailOutOnMatch(emp, m, pos, p) == emp /\ m

\* exec_ lines 155-156: leave the loop when the thread set is empty.
BailOut(emp, m, pos, p) == emp /\ (m \/ (~is_beginning(pos) /\ p.anchored_begin))

\* exec_ lines 174-175: inject a thread at instruction 0.
ShouldSeedOnlyWhenEmpty(emp, m, p) == emp

ShouldSeedUnlessAnchored(emp, m, p) == ~p.anchored_begin /\ ~m

ShouldSeed(emp, m, p) == emp \/ (~p.anchored_begin /\ ~m)

SkipAheadAlways(emp, p) == p.prefixes # {}

\* exec_ lines 146 and 163: with no thread left and a literal prefix, jump
\* ahead.
SkipAhead(emp, p) == emp /\ p.prefixes # {}

\* exec_ lines 146-177: the top of the main loop, up to the call of add.
LoopTop ==
    /\ pc = "loop"
    /\ LET emp == SetIsEmpty(clist.set)
           at1 == IF SkipAhead(emp, prog)
                  THEN prefix_at(text, prog.prefixes, at) ELSE at
       IN IF BailOut(emp, matched, at, prog) \/ at1 = None
          THEN /\ pc' = "return"
               /\ UNCHANGED <<at, stack, caller, match_slot, i, seen_matches,
                              handed>>
          ELSE /\ at' = at1
               /\ IF ShouldSeed(emp, matched, prog)
                  THEN /\ stack' = Append(stack, FrameIP(0))
                       /\ caller' = "seed"
                       /\ match_slot' = None
                       /\ handed' = Handed(captures, None)
                       /\ pc' = "add"
                       /\ UNCHANGED <<i, seen_matches>>
                  ELSE /\ i' = 0
                       /\ seen_matches' = SetClear(seen_matches)
                       /\ pc' = "for"
                       /\ UNCHANGED <<stack, caller, match_slot, handed>>
    /\ UNCHANGED <<ast, compiler, compiled, job, prog, text, start, quit, captures, matches, clist, nlist,
                   matched, ip, ret, phase, first, orig>>

\* The thread of clist the for loop is at.
CurIp == Idx(clist.set.dense, i)

\* The `at` add was called with: at for the seed, at_next from step.
AddAt == IF caller = "seed" THEN at ELSE NextPos(text, at)

\* The captures add works on: the caller's sink for the seed (line 176),
\* clist.caps(ip) from step (line 195).
ThreadCaps == IF caller = "seed" THEN captures ELSE Idx(clist.caps, CurIp)

\* The thread set add fills: clist for the seed, nlist from step.
AddList == IF caller = "seed" THEN clist ELSE nlist

\* Writes back the thread set and the captures add worked on.
AddWrite(list, tcaps) ==
    IF caller = "seed"
    THEN /\ clist' = list
         /\ captures' = tcaps
         /\ UNCHANGED nlist
    ELSE /\ nlist' = list
         /\ clist' = [clist EXCEPT !.caps[CurIp + 1] = tcaps]
         /\ UNCHANGED captures

\* add (lines 303-319): pop one frame, or return to the caller.
Add ==
    /\ pc = "add"
    /\ IF stack = <<>>
       THEN /\ pc' = "for"
            /\ IF caller = "seed"
               THEN i' = 0 /\ seen_matches' = SetClear(seen_matches)
               ELSE i' = i + 1 /\ UNCHANGED seen_matches
            /\ handed' = NotHanded
            /\ UNCHANGED <<stack, ip, match_slot, clist, nlist, captures>>
       ELSE LET frame == stack[Len(stack)]
            IN /\ stack' = SubSeq(stack, 1, Len(stack) - 1)
               /\ IF frame.t = "IP"
                  THEN /\ ip' = frame.ip
                       /\ pc' = "add_step"
                       /\ UNCHANGED <<match_slot, clist, nlist, captures>>
                  ELSE /\ match_slot' = frame.old_match_slot
                       /\ AddWrite(AddList,
                                   set_capture(ThreadCaps, frame.save.match_slot,
                                               frame.save.capture_slot,
                                               frame.old_capture_slot))
                       /\ pc' = "add"
                       /\ UNCHANGED ip
               /\ UNCHANGED <<i, seen_matches, handed>>
    /\ UNCHANGED <<ast, compiler, compiled, job, prog, text, start, quit, matches, matched, at, caller, ret,
                   phase, first, orig>>

AlreadyAddedNever(list, n) == FALSE

AlreadyAddedIfStored(list, n) ==
    contains_ip(list.set, n) /\ Idx(list.match_slots, n) # None

\* add_step line 338: don't visit states we've already added.
AlreadyAdded(list, n) == contains_ip(list.set, n)

\* add_step lines 372-373: store the thread at a consuming instruction.
StoreThread(list, n, tcaps, ms) ==
    [list EXCEPT !.caps[n + 1] = copy_from(@, tcaps),
                 !.match_slots[n + 1] = ms]

FollowLookAlways(inst, n, prev, next) == inst.goto

\* add_step lines 343-349: an EmptyLook is followed to its goto when it
\* matches between prev and next; otherwise ip stays, and the next iteration
\* returns at line 338.
FollowLook(inst, n, prev, next) ==
    IF LookMatches(inst.look, prev, next) THEN inst.goto ELSE n

SaveMatchSlotIfSaved(inst, has, old) == IF has THEN inst.match_slot ELSE old

\* add_step line 364: a Save sets the match slot, whether or not the capture
\* vector has its slot.
SaveMatchSlot(inst, has, old) == inst.match_slot

\* add_step (lines 336-377): one iteration of its loop.
AddStep ==
    /\ pc = "add_step"
    /\ IF AlreadyAdded(AddList, ip)
       THEN /\ pc' = "add"
            /\ UNCHANGED <<ip, stack, match_slot, clist, nlist, captures>>
       ELSE LET inst == Idx(prog.insts, ip)
                list == [AddList EXCEPT !.set = SetAdd(@, ip)]
            IN CASE inst.op = "EmptyLook" ->
                      /\ ip' = FollowLook(inst, ip, previous_char(text, AddAt),
                                          next_char(text, AddAt))
                      /\ AddWrite(list, ThreadCaps)
                      /\ pc' = "add_step"
                      /\ UNCHANGED <<stack, match_slot>>
                 [] inst.op = "Save" ->
                      /\ IF has_capture(ThreadCaps, inst.match_slot,
                                        inst.capture_slot)
                         THEN /\ stack' = Append(stack,
                                    FrameCapture(inst, match_slot,
                                        capture(ThreadCaps, inst.match_slot,
                                                inst.capture_slot)))
                              /\ AddWrite(list,
                                    set_capture(ThreadCaps, inst.match_slot,
                                                inst.capture_slot, AddAt))
                         ELSE /\ AddWrite(list, ThreadCaps)
                              /\ UNCHANGED stack
                      /\ match_slot' =
                            SaveMatchSlot(inst,
                                          has_capture(ThreadCaps, inst.match_slot,
                                                      inst.capture_slot),
                                          match_slot)
                      /\ ip' = inst.goto
                      /\ pc' = "add_step"
                 [] inst.op = "Split" ->
                      /\ stack' = Append(stack, FrameIP(inst.goto2))
                      /\ ip' = inst.goto1
                      /\ AddWrite(list, ThreadCaps)
                      /\ pc' = "add_step"
                      /\ UNCHANGED match_slot
                 [] inst.op \in {"Match", "Char", "Ranges", "Bytes"} ->
                      /\ AddWrite(StoreThread(list, ip, ThreadCaps, match_slot),
                                  ThreadCaps)
                      /\ pc' = "add"
                      /\ UNCHANGED <<ip, stack, match_slot>>
    /\ UNCHANGED <<ast, compiler, compiled, job, prog, text, start, quit, matches, seen_matches, matched, at,
                   i, caller, ret, phase, first, orig, handed>>

SkipThreadNever(list, seen, n) == FALSE

SkipThreadSingle(list, seen, n) ==
    /\ Len(matches) = 1
    /\ Idx(list.match_slots, n) # None
    /\ contains_ip(seen, Idx(list.match_slots, n))

\* exec_ lines 186-190: skip a thread whose sub-pattern matched already.
SkipThread(list, seen, n) ==
    /\ Idx(list.match_slots, n) # None
    /\ contains_ip(seen, Idx(list.match_slots, n))

ConsumesOrSaves(inst, ch) ==
    CASE inst.op = "Char" -> inst.c = ch
      [] inst.op = "Ranges" -> ch \in inst.cs
      [] inst.op = "Bytes" -> ch # NoChar /\ ch \in inst.cs
      [] inst.op = "Save" -> TRUE
      [] OTHER -> FALSE

ConsumesOrLooks(inst, ch) ==
    CASE inst.op = "Char" -> inst.c = ch
      [] inst.op = "Ranges" -> ch \in inst.cs
      [] inst.op = "Bytes" -> ch # NoChar /\ ch \in inst.cs
      [] inst.op = "EmptyLook" -> TRUE
      [] OTHER -> FALSE

\* step (lines 259-286): does the instruction consume the character?
Consumes(inst, ch) ==
    CASE inst.op = "Char" -> inst.c = ch
      [] inst.op = "Ranges" -> ch \in inst.cs
      [] inst.op = "Bytes" -> ch # NoChar /\ ch \in inst.cs
      [] OTHER -> FALSE

MatchCapturesDropped(sink, tcaps, ms) == sink

MatchCapturesAllRows(sink, tcaps, ms) == copy_from(sink, tcaps)

MatchFlagsFirst(flags, ms) == [flags EXCEPT ![1] = TRUE]

\* step lines 261-262: the sink after a Match(ms) is stepped.
MatchCaptures(sink, tcaps, ms) == copy_from_match(sink, tcaps, ms)
MatchFlags(flags, ms) == [flags EXCEPT ![ms + 1] = TRUE]

KeepSteppingAlways(flags) == TRUE

\* exec_ lines 212-223: after a match, go on with the rest of the threads?
KeepStepping(flags) == Len(flags) > 1

AfterMatchGoOn(q, flags) == IF KeepStepping(flags) THEN "for" ELSE "after"

\* exec_ lines 204-223: where a Match stepped leads: out of the main loop
\* (break 'LOOP), on to the next thread, or out of the for loop (break).
AfterMatch(q, flags) ==
    IF q THEN "return" ELSE IF KeepStepping(flags) THEN "for" ELSE "after"

\* exec_ lines 184-225: one iteration of the for loop over clist.set,
\* with the call of step.
ForThread ==
    /\ pc = "for"
    /\ IF i >= SetLen(clist.set)
       THEN /\ pc' = "after"
            /\ UNCHANGED <<i, stack, caller, match_slot, captures, matches,
                           matched, seen_matches, handed>>
       ELSE LET inst == Idx(prog.insts, CurIp)
                slot == Idx(clist.match_slots, CurIp)
            IN IF SkipThread(clist, seen_matches, CurIp)
               THEN /\ i' = i + 1
                    /\ pc' = "for"
                    /\ UNCHANGED <<stack, caller, match_slot, captures, matches,
                                   matched, seen_matches, handed>>
               ELSE IF inst.op = "Match"
               THEN /\ captures' = MatchCaptures(captures, Idx(clist.caps, CurIp),
                                                 inst.match_slot)
                    /\ matches' = MatchFlags(matches, inst.match_slot)
                    /\ matched' = TRUE
                    /\ IF slot = None
                       THEN /\ pc' = "panic"
                            /\ UNCHANGED <<seen_matches, i>>
                       ELSE /\ seen_matches' = SetAdd(seen_matches, slot)
                            /\ pc' = AfterMatch(quit, matches)
                            /\ i' = IF pc' = "for" THEN i + 1 ELSE i
                    /\ UNCHANGED <<stack, caller, match_slot, handed>>
               ELSE IF Consumes(inst, CharAt(text, at))
               THEN /\ stack' = Append(stack, FrameIP(inst.goto))
                    /\ caller' = "step"
                    /\ match_slot' = slot
                    /\ handed' = Handed(Idx(clist.caps, CurIp), slot)
                    /\ pc' = "add"
                    /\ UNCHANGED <<i, captures, matches, matched, seen_matches>>
               ELSE /\ i' = i + 1
                    /\ pc' = "for"
                    /\ UNCHANGED <<stack, caller, match_slot, captures, matches,
                                   matched, seen_matches, handed>>
    /\ UNCHANGED <<ast, compiler, compiled, job, prog, text, start, quit, clist, nlist, at, ip, ret, phase,
                   first, orig>>

\* exec_ lines 226-231: stop at the end of the text, or advance.
Advance ==
    /\ pc = "after"
    /\ IF is_end(text, at)
       THEN /\ pc' = "return"
            /\ UNCHANGED <<at, clist, nlist>>
       ELSE /\ at' = NextPos(text, at)
            /\ clist' = nlist
            /\ nlist' = [clist EXCEPT !.set = SetClear(@)]
            /\ pc' = "loop"
    /\ UNCHANGED <<ast, compiler, compiled, job, prog, text, start, quit, captures, matches, stack,
                   seen_matches, matched, i, caller, match_slot, ip, ret, phase,
                   first, orig, handed>>

\* exec_ line 233: return matched.
Return ==
    /\ pc = "return"
    /\ ret' = matched
    /\ pc' = "done"
    /\ UNCHANGED <<ast, compiler, compiled, job, prog, text, start, quit, captures, matches, clist, nlist,
                   stack, seen_matches, matched, at, i, caller, match_slot, ip,
                   phase, first, orig, handed>>

\* The caller runs exec again on the same Program, input and start, with a
\* fresh sink; the cache is the one the first execution left behind.
Repeat1 ==
    /\ pc = "done" /\ phase = "first"
    /\ first' = [ret |-> ret, matches |-> matches, captures |-> captures,
                 sink |-> alloc_captures(prog)]
    /\ captures' = alloc_captures(prog)
    /\ matches' = NoMatches(prog)
    /\ phase' = "twice"
    /\ pc' = "exec"
    /\ UNCHANGED <<ast, compiler, compiled, job, prog, text, start, quit, clist, nlist, stack, seen_matches,
                   matched, at, i, caller, match_slot, ip, ret, orig, handed>>

\* The caller runs exec on another input, with a fresh sink.
RunOther ==
    /\ pc = "done" /\ phase = "first"
    /\ first' = [ret |-> ret, matches |-> matches, captures |-> captures,
                 sink |-> alloc_captures(prog)]
    /\ \E t \in OtherInputs : text' = t
    /\ start' = 0
    /\ captures' = alloc_captures(prog)
    /\ matches' = NoMatches(prog)
    /\ phase' = "other"
    /\ pc' = "exec"
    /\ UNCHANGED <<ast, compiler, compiled, job, prog, quit, clist, nlist, stack, seen_matches, matched, at, i,
                   caller, match_slot, ip, ret, orig, handed>>

\* The caller comes back to the first input, with a fresh sink or with the
\* sink the execution in between filled.
RunBack ==
    /\ pc = "done" /\ phase = "other"
    /\ text' = orig.text
    /\ start' = orig.start
    /\ \E fresh \in BOOLEAN :
          /\ captures' = IF fresh THEN alloc_captures(prog) ELSE captures
          /\ phase' = IF fresh THEN "again" ELSE "reused"
    /\ first' = [first EXCEPT !.sink = captures']
    /\ matches' = NoMatches(prog)
    /\ pc' = "exec"
    /\ UNCHANGED <<ast, compiler, compiled, job, prog, quit, clist, nlist, stack, seen_matches, matched, at, i,
                   caller, match_slot, ip, ret, orig, handed>>

\* The caller runs exec again on the same Program, input and start, with a
\* fresh sink and the other value of quit_after_first_match.
RunFlipped ==
    /\ pc = "done" /\ phase = "first"
    /\ first' = [ret |-> ret, matches |-> matches, captures |-> captures,
                 sink |-> alloc_captures(prog)]
    /\ quit' = ~quit
    /\ captures' = alloc_captures(prog)
    /\ matches' = NoMatches(prog)
    /\ phase' = "flipped"
    /\ pc' = "exec"
    /\ UNCHANGED <<ast, compiler, compiled, job, prog, text, start, clist,
                   nlist, stack, seen_matches, matched, at, i, caller,
                   match_slot, ip, ret, orig, handed>>

Next ==
    \/ Exec
    \/ LoopTop
    \/ Add
    \/ AddStep
    \/ ForThread
    \/ Advance
    \/ Return
    \/ Repeat1
    \/ RunOther
    \/ RunBack
    \/ RunFlipped

Spec == Init /\ [][Next]_vars

\* The caller runs exec again on the same input and start with a fresh sink
\* and the same Program without its literal prefixes.
RunUnprefixed ==
    /\ pc = "done" /\ phase = "first"
    /\ prog.prefixes # {}
    /\ first' = [ret |-> ret, matches |-> matches, captures |-> captures,
                 sink |-> alloc_captures(prog)]
    /\ prog' = [prog EXCEPT !.prefixes = {}]
    /\ captures' = alloc_captures(prog)
    /\ matches' = NoMatches(prog)
    /\ phase' = "unprefixed"
    /\ pc' = "exec"
    /\ UNCHANGED <<ast, compiler, compiled, job, text, start, quit, clist,
                   nlist, stack, seen_matches, matched, at, i, caller,
                   match_slot, ip, ret, orig, handed>>

NextPrefix ==
    \/ Next
    \/ RunUnprefixed

\* The executions of Spec, and those without the literal prefixes.
SpecPrefix == Init /\ [][NextPrefix]_vars

\* The executions of Spec, with the first execution on any sink of Sinks.
InitSinks ==
    /\ ast = Empty
    /\ compiler = NewCompiler(DefaultSizeLimit)
    /\ compiled = NotCompiled
    /\ job \in 1..Len(Jobs)
    /\ prog = Programs[job]
    /\ text \in Texts \cup {ExampleText} \cup ExtraTexts(job)
    /\ start \in 0..Len(text)
    /\ quit \in BOOLEAN
    /\ captures \in Sinks(prog)
    /\ matches = NoMatches(prog)
    /\ clist = ThreadsNew
    /\ nlist = ThreadsNew
    /\ stack = <<>>
    /\ seen_matches = SparseSetNew(0)
    /\ matched = FALSE
    /\ at = 0
    /\ i = 0
    /\ caller = "seed"
    /\ match_slot = None
    /\ ip = 0
    /\ pc = "exec"
    /\ ret = FALSE
    /\ phase = "first"
    /\ first = [ret |-> FALSE, matches |-> <<>>, captures |-> <<>>,
                sink |-> captures]
    /\ orig = [text |-> text, start |-> start]
    /\ handed = NotHanded

SpecSinks == InitSinks /\ [][Next]_vars

\* ------------------------------------------------ the compiler on its own
\* Compiler::new(size_limit).compile(ast) and .compile_reverse(ast), for the
\* expressions of Asts and the limits of SizeLimits.

InitCompile ==
    /\ ast \in Asts
    /\ \E size_limit \in SizeLimits : compiler = NewCompiler(size_limit)
    /\ compiled = NotCompiled
    /\ job = 1
    /\ prog = Programs[1]
    /\ text = <<>>
    /\ start = 0
    /\ quit = FALSE
    /\ captures = alloc_captures(prog)
    /\ matches = NoMatches(prog)
    /\ clist = ThreadsNew
    /\ nlist = ThreadsNew
    /\ stack = <<>>
    /\ seen_matches = SparseSetNew(0)
    /\ matched = FALSE
    /\ at = 0
    /\ i = 0
    /\ caller = "seed"
    /\ match_slot = None
    /\ ip = 0
    /\ pc = "compile"
    /\ ret = FALSE
    /\ phase = "first"
    /\ first = [ret |-> FALSE, matches |-> <<>>, captures |-> <<>>,
                sink |-> captures]
    /\ orig = [text |-> text, start |-> start]
    /\ handed = NotHanded

Compile ==
    /\ pc = "compile"
    /\ compiler' = compile(compiler, ast)
    /\ compiled' = Compiled(compiler')
    /\ pc' = "compiled"
    /\ UNCHANGED <<ast, job, prog, text, start, quit, captures, matches, clist,
                   nlist, stack, seen_matches, matched, at, i, caller,
                   match_slot, ip, ret, phase, first, orig, handed>>

CompileReverse ==
    /\ pc = "compile"
    /\ compiler' = compile_reverse(compiler, ast)
    /\ compiled' = CompiledReverse(compiler')
    /\ pc' = "compiled"
    /\ UNCHANGED <<ast, job, prog, text, start, quit, captures, matches, clist,
                   nlist, stack, seen_matches, matched, at, i, caller,
                   match_slot, ip, ret, phase, first, orig, handed>>

NextCompile ==
    \/ Compile
    \/ CompileReverse

SpecCompile == InitCompile /\ [][NextCompile]_vars

\* ------------------------------------------- reference matchers on the AST
\* A brute-force matcher: Ends(txt, re, p) is the set of all positions q
\* such that re matches txt[p..q], found by trying every way to match.

RECURSIVE Ends(_, _, _)
RECURSIVE EndsSeq(_, _, _)
RECURSIVE EndsStar(_, _, _)
RECURSIVE EndsTimes(_, _, _, _)
RECURSIVE EndsUpTo(_, _, _, _)

EndsFrom(txt, re, S) == UNION {Ends(txt, re, q) : q \in S}

EndsSeq(txt, es, S) ==
    IF es = <<>> THEN S ELSE EndsSeq(txt, Tail(es), EndsFrom(txt, Head(es), S))

EndsStar(txt, e, S) ==
    LET T == S \cup EndsFrom(txt, e, S)
    IN IF T = S THEN S ELSE EndsStar(txt, e, T)

EndsTimes(txt, e, S, n) ==
    IF n = 0 THEN S ELSE EndsTimes(txt, e, EndsFrom(txt, e, S), n - 1)

EndsUpTo(txt, e, S, n) ==
    IF n = 0 THEN S ELSE S \cup EndsUpTo(txt, e, EndsFrom(txt, e, S), n - 1)

Ends(txt, re, p) ==
    CASE re.k = "Empty" -> {p}
      [] re.k = "Literal" ->
           IF /\ p + Len(re.chars) <= Len(txt)
              /\ \A n \in 1..Len(re.chars) :
                    txt[p + n] \in (IF re.casei THEN CaseFold(re.chars[n])
                                    ELSE {re.chars[n]})
           THEN {p + Len(re.chars)} ELSE {}
      [] re.k = "AnyChar" -> IF p < Len(txt) THEN {p + 1} ELSE {}
      [] re.k = "Class" ->
           IF p < Len(txt) /\ txt[p + 1] \in re.cls THEN {p + 1} ELSE {}
      [] re.k = "StartText" -> IF p = 0 THEN {p} ELSE {}
      [] re.k = "EndText" -> IF p = Len(txt) THEN {p} ELSE {}
      [] re.k = "WordBoundary" ->
           IF (p > 0 /\ is_word_char(txt[p]))
              # (p < Len(txt) /\ is_word_char(txt[p + 1]))
           THEN {p} ELSE {}
      [] re.k = "NotWordBoundary" ->
           IF (p > 0 /\ is_word_char(txt[p]))
              = (p < Len(txt) /\ is_word_char(txt[p + 1]))
           THEN {p} ELSE {}
      [] re.k = "Group" -> Ends(txt, re.e, p)
      [] re.k = "Concat" -> EndsSeq(txt, re.es, {p})
      [] re.k = "Alternate" ->
           UNION {Ends(txt, re.es[n], p) : n \in 1..Len(re.es)}
      [] re.k = "Repeat" /\ re.r = "ZeroOrOne" -> {p} \cup Ends(txt, re.e, p)
      [] re.k = "Repeat" /\ re.r = "ZeroOrMore" -> EndsStar(txt, re.e, {p})
      [] re.k = "Repeat" /\ re.r = "OneOrMore" ->
           EndsStar(txt, re.e, Ends(txt, re.e, p))
      [] re.k = "Repeat" /\ re.r = "Range" ->
           LET S == EndsTimes(txt, re.e, {p}, re.min)
           IN IF re.max = None THEN EndsStar(txt, re.e, S)
              ELSE EndsUpTo(txt, re.e, S, re.max - re.min)

\* Does some pattern of res match somewhere at or after st?
BruteForceMatches(res, txt, st) ==
    \E n \in 1..Len(res) : \E p \in st..Len(txt) : Ends(txt, res[n], p) # {}

\* A backtracking matcher with priorities: Ord(txt, re, p) lists the ends of
\* the matches of re at p, most preferred first: the alternatives of an
\* alternation in order, another iteration of a greedy repetition before
\* leaving it (the reverse when lazy).  An iteration that consumed nothing
\* is not repeated.

RECURSIVE Dedup(_)
Dedup(ps) ==
    IF ps = <<>> THEN <<>>
    ELSE LET rest == Dedup(SubSeq(ps, 1, Len(ps) - 1))
             last == ps[Len(ps)]
         IN IF \E n \in 1..Len(rest) : rest[n] = last THEN rest
            ELSE Append(rest, last)

RECURSIVE Ord(_, _, _)
RECURSIVE OrdMap(_, _, _)
RECURSIVE OrdSeq(_, _, _)
RECURSIVE OrdTimes(_, _, _, _)
RECURSIVE OrdPlus(_, _, _, _)

\* The ends of re from each position of ps in turn.
OrdMap(txt, re, ps) ==
    IF ps = <<>> THEN <<>>
    ELSE Dedup(Ord(txt, re, Head(ps)) \o OrdMap(txt, re, Tail(ps)))

OrdSeq(txt, es, ps) ==
    IF es = <<>> THEN ps
    ELSE OrdSeq(txt, Tail(es), OrdMap(txt, Head(es), ps))

OrdTimes(txt, e, ps, n) ==
    IF n = 0 THEN ps ELSE OrdTimes(txt, e, OrdMap(txt, e, ps), n - 1)

\* e+ from p, for the ends qs of the first iteration of e.
OrdPlus(txt, re, p, qs) ==
    IF qs = <<>> THEN <<>>
    ELSE LET q == Head(qs)
             more == IF q # p THEN Ord(txt, re, q) ELSE <<>>
         IN (IF re.greedy THEN Append(more, q) ELSE <<q>> \o more)
            \o OrdPlus(txt, re, p, Tail(qs))

Ord(txt, re, p) ==
    CASE re.k \in {"Empty", "Literal", "AnyChar", "Class", "StartText",
                    "EndText", "WordBoundary", "NotWordBoundary"} ->
           LET S == Ends(txt, re, p)
           IN IF S = {} THEN <<>> ELSE <<CHOOSE q \in S : TRUE>>
      [] re.k = "Group" -> Ord(txt, re.e, p)
      [] re.k = "Concat" -> OrdSeq(txt, re.es, <<p>>)
      [] re.k = "Alternate" ->
           IF Len(re.es) = 0 THEN <<p>>
           ELSE IF Len(re.es) = 1 THEN Ord(txt, re.es[1], p)
           ELSE Dedup(Ord(txt, re.es[1], p)
                      \o Ord(txt, Alternate(Tail(re.es)), p))
      [] re.k = "Repeat" /\ re.r = "ZeroOrOne" ->
           Dedup(IF re.greedy THEN Append(Ord(txt, re.e, p), p)
                 ELSE <<p>> \o Ord(txt, re.e, p))
      [] re.k = "Repeat" /\ re.r = "ZeroOrMore" ->
           LET qs == SelectSeq(Ord(txt, re.e, p), LAMBDA q : q # p)
               more == OrdMap(txt, re, qs)
           IN Dedup(IF re.greedy THEN Append(more, p) ELSE <<p>> \o more)
      [] re.k = "Repeat" /\ re.r = "OneOrMore" ->
           Dedup(OrdPlus(txt, re, p, Ord(txt, re.e, p)))
      [] re.k = "Repeat" /\ re.r = "Range" ->
           IF re.min > 0
           THEN OrdMap(txt, RepeatRange(re.e, 0,
                                IF re.max = None THEN None
                                ELSE re.max - re.min, re.greedy),
                       OrdTimes(txt, re.e, <<p>>, re.min))
           ELSE IF re.max = None
           THEN Ord(txt, Repeat(re.e, "ZeroOrMore", re.greedy), p)
           ELSE IF re.max = 0 THEN <<p>>
           ELSE LET more == OrdMap(txt, RepeatRange(re.e, 0, re.max - 1,
                                                    re.greedy),
                                   Ord(txt, re.e, p))
                IN Dedup(IF re.greedy THEN Append(more, p) ELSE <<p>> \o more)

\* The leftmost-first match of re at or after st: <<begin, end>>, or <<>>.
RECURSIVE LeftmostFirst(_, _, _)
LeftmostFirst(txt, re, st) ==
    IF st > Len(txt) THEN <<>>
    ELSE LET ends == Ord(txt, re, st)
         IN IF ends # <<>> THEN <<st, ends[1]>>
            ELSE LeftmostFirst(txt, re, st + 1)

\* The overall span (slots 0 and 1) of sub-pattern ms in the sink.
Span(caps, ms) == <<capture(caps, ms, 0), capture(caps, ms, 1)>>

\* ------------------------------------------------------------------ claims

\* C1: the boolean exec returns equals the answer of the brute-force
\* matcher for the same patterns, input and start.
ExecAgreesWithBruteForce ==
    pc = "done" => ret = BruteForceMatches(Jobs[job], text, start)

\* C1 witness: a run that found a match beginning past the start position.
ExecMatchedPastStart ==
    /\ pc = "done" /\ ret /\ phase = "first"
    /\ capture(captures, 0, 0) > start

\* C2: a single-pattern execution that matches reports the leftmost-first
\* span: it begins at the smallest position >= start at which a match
\* begins and is the match the priority order prefers there.
SpanIsLeftmostFirst ==
    (pc = "done" /\ Len(Jobs[job]) = 1 /\ ret)
        => Span(captures, 0) = LeftmostFirst(text, Jobs[job][1], start)

\* C2 amended: the same, for executions whose sink does not ask to quit
\* after the first match.
SpanIsLeftmostFirstUnlessQuit ==
    (pc = "done" /\ Len(Jobs[job]) = 1 /\ ret /\ ~quit)
        => Span(captures, 0) = LeftmostFirst(text, Jobs[job][1], start)

\* C2 witness: a match that begins past start and is not the only match
\* beginning there.
LeftmostFirstChosen ==
    /\ pc = "done" /\ Len(Jobs[job]) = 1 /\ ret /\ ~quit
    /\ capture(captures, 0, 0) > start
    /\ Cardinality(Ends(text, Jobs[job][1], capture(captures, 0, 0))) > 1

\* C3: exec returns true exactly when some matches[k] is true on return,
\* and a flag matches[k] is raised only by stepping a Match(k) instruction.
SomeFlag == \E k \in 1..Len(matches) : matches[k]

SteppingMatch(k) ==
    /\ pc = "for" /\ i < SetLen(clist.set)
    /\ ~SkipThread(clist, seen_matches, CurIp)
    /\ Idx(prog.insts, CurIp).op = "Match"
    /\ Idx(prog.insts, CurIp).match_slot = k

ReturnsTrueIffFlagged ==
    [][/\ pc' = "done" => (ret' <=> SomeFlag')
       /\ \A k \in 1..Len(matches) :
             (~matches[k] /\ Len(matches') = Len(matches) /\ matches'[k])
                 => SteppingMatch(k - 1)]_vars

\* C3 witness: a set execution that returned true with one flag raised and
\* another not.
SomeFlagsRaised ==
    /\ pc = "done" /\ ret
    /\ \E k, n \in 1..Len(matches) : matches[k] /\ ~matches[n]

\* C7: a sub-pattern reported as matched has its slots 0 and 1 set, with
\* start <= slot 0 <= slot 1 <= length of the input.
MatchedSpansInRange ==
    pc = "done" =>
        \A k \in 1..Len(matches) :
            matches[k] =>
                /\ capture(captures, k - 1, 0) # None
                /\ capture(captures, k - 1, 1) # None
                /\ start <= capture(captures, k - 1, 0)
                /\ capture(captures, k - 1, 0) <= capture(captures, k - 1, 1)
                /\ capture(captures, k - 1, 1) <= Len(text)

\* C7 witness: a non-empty match reported that neither begins at start nor
\* ends at the end of the input.
MatchedInside ==
    /\ pc = "done" /\ phase = "first"
    /\ \E k \in 1..Len(matches) :
          /\ matches[k]
          /\ start < capture(captures, k - 1, 0)
          /\ capture(captures, k - 1, 0) < capture(captures, k - 1, 1)
          /\ capture(captures, k - 1, 1) < Len(text)

\* C8: in a set execution each flagged sub-pattern has in its row the
\* leftmost-first span it has when run alone on the same input and start;
\* the set {[a-z]+?, abc} on "abc" flags both, with spans (0,1) and (0,3).
SetSpansAreLeftmostFirst ==
    (pc = "done" /\ Len(Jobs[job]) > 1) =>
        /\ \A k \in 1..Len(matches) :
              matches[k] =>
                  Span(captures, k - 1) = LeftmostFirst(text, Jobs[job][k], start)
        /\ (Jobs[job] = ExampleSet /\ text = ExampleText /\ start = 0) =>
              /\ matches = <<TRUE, TRUE>>
              /\ Span(captures, 0) = <<0, 1>>
              /\ Span(captures, 1) = <<0, 3>>

\* C8 amended: the same, for executions whose sink does not ask to quit
\* after the first match.
SetSpansAreLeftmostFirstUnlessQuit ==
    (pc = "done" /\ Len(Jobs[job]) > 1 /\ ~quit) =>
        /\ \A k \in 1..Len(matches) :
              matches[k] =>
                  Span(captures, k - 1) = LeftmostFirst(text, Jobs[job][k], start)
        /\ (Jobs[job] = ExampleSet /\ text = ExampleText /\ start = 0) =>
              /\ matches = <<TRUE, TRUE>>
              /\ Span(captures, 0) = <<0, 1>>
              /\ Span(captures, 1) = <<0, 3>>

\* C8 witness: the execution of the example set on "abc" has returned.
ExampleSetRan ==
    /\ pc = "done" /\ ~quit /\ phase = "first"
    /\ Jobs[job] = ExampleSet /\ text = ExampleText /\ start = 0
    /\ matches = <<TRUE, TRUE>>

\* C4: exec terminates, also on programs with epsilon cycles: every step
\* of exec strictly decreases a measure that is never negative.  The
\* measure orders, in turn, the positions left, the stage within a
\* position (top of the loop, seeding add, for loop, bottom of the loop),
\* the threads of clist left to step, and within add the instructions not
\* yet in the thread set, the frames on the stack and the place in add.
AddMeasure ==
    3 * (NumInsts - SetLen(AddList.set)) + 2 * Len(stack)
        + (IF pc = "add_step" THEN 1 ELSE 0)

AddBound == 5 * NumInsts + 5

ForBound == (NumInsts + 1) * AddBound

PositionBound == ForBound + AddBound + 2

StageMeasure ==
    CASE pc = "loop" -> 1 + ForBound + AddBound
      [] pc \in {"add", "add_step"} /\ caller = "seed" -> 1 + ForBound + AddMeasure
      [] pc \in {"add", "add_step"} /\ caller = "step" ->
            1 + (SetLen(clist.set) - i) * AddBound + AddMeasure
      [] pc = "for" -> 1 + (SetLen(clist.set) - i) * AddBound + AddBound - 1
      [] OTHER -> 0

Measure ==
    CASE pc = "exec" -> 2 + (Len(text) + 1) * PositionBound
      [] pc \in {"loop", "add", "add_step", "for", "after"} ->
            2 + (Len(text) - at) * PositionBound + StageMeasure
      [] pc = "return" -> 1
      [] OTHER -> 0

ExecTerminates ==
    [][pc \notin {"done", "panic"} =>
          /\ Measure' < Measure
          /\ Measure' >= 0
          /\ pc \in {"add", "add_step"} =>
                (AddMeasure >= 0 /\ AddMeasure <= AddBound - 2)
          /\ StageMeasure < PositionBound
          /\ (pc = "after" => (at' > at \/ pc' = "return"))]_vars

\* The instructions reached from those of S by epsilon transitions.
EpsSucc(p, n) ==
    LET inst == Idx(p.insts, n)
    IN CASE inst.op = "Split" -> {inst.goto1, inst.goto2}
         [] inst.op \in {"Save", "EmptyLook"} -> {inst.goto}
         [] OTHER -> {}

RECURSIVE EpsReach(_, _)
EpsReach(p, S) ==
    LET T == S \cup UNION {EpsSucc(p, n) : n \in S}
    IN IF T = S THEN S ELSE EpsReach(p, T)

OnEpsilonCycle(p, n) == n \in EpsReach(p, EpsSucc(p, n))

\* C4 witness: add comes back to an instruction on an epsilon cycle that
\* is in the thread set already.
EpsilonCycleCut ==
    /\ pc = "add_step"
    /\ OnEpsilonCycle(prog, ip)
    /\ AlreadyAdded(AddList, ip)

\* C5: a second execution with the same Program, input and start on the
\* cache the first one left behind ends with the same matches, the same
\* captures and the same result.
SecondRunSame ==
    (pc = "done" /\ phase = "twice") =>
        /\ matches = first.matches
        /\ captures = first.captures
        /\ ret = first.ret

\* C5 witness: the second execution returned a match, on a cache whose
\* thread sets the first execution had left non-empty.
SecondRunMatched ==
    /\ pc = "done" /\ phase = "twice" /\ ret
    /\ first.captures # alloc_captures(prog)
    /\ ~SetIsEmpty(nlist.set)

\* C6: matches and captures on return depend on the program, the input and
\* start alone, whatever the cache and the caller's sink held before.
ResultIndependentOfCacheAndSink ==
    (pc = "done" /\ phase \in {"again", "reused"}) =>
        /\ matches = first.matches
        /\ captures = first.captures

\* C6 amended: whatever the cache held before, matches, the result and the
\* captures are the same; whatever the sink held before, matches and the
\* result are the same, and each slot of the sink holds what the execution
\* on a fresh sink leaves there if that is a position, and what the sink
\* held before otherwise.
ResultIndependentOfCache ==
    (pc = "done" /\ phase \in {"again", "reused"}) =>
        /\ matches = first.matches
        /\ ret = first.ret
        /\ phase = "again" => captures = first.captures
        /\ \A k \in 1..Len(captures) : \A n \in 1..Len(captures[k]) :
              captures[k][n] = IF first.captures[k][n] # None
                               THEN first.captures[k][n]
                               ELSE first.sink[k][n]

\* C6 witness: an execution on a sink filled by another execution ended
\* with a match and with captures that differ from those on a fresh sink.
ReusedSinkDiffers ==
    /\ pc = "done" /\ phase = "reused" /\ ret
    /\ captures # first.captures

\* C9: a thread set never holds an instruction pointer twice, so it never
\* holds more entries than the program has instructions; this includes the
\* seeding add on a clist that holds threads carried over.
NoDuplicates(set) ==
    \A m, n \in 1..Len(set.dense) : set.dense[m] = set.dense[n] => m = n

ThreadSetsHaveNoDuplicates ==
    /\ NoDuplicates(clist.set) /\ SetLen(clist.set) <= clist.set.cap
    /\ NoDuplicates(nlist.set) /\ SetLen(nlist.set) <= nlist.set.cap
    /\ pc \notin {"exec", "done"} =>
          clist.set.cap = NumInsts /\ nlist.set.cap = NumInsts

\* C9 witness: the seeding add reaches an instruction that a thread
\* carried over from the previous position has put in clist already.
SeedMeetsCarriedThread ==
    /\ pc = "add_step" /\ caller = "seed" /\ at > start
    /\ AlreadyAdded(clist, ip)
    /\ \E n \in 1..Len(clist.set.dense) :
          /\ clist.set.dense[n] = ip
          /\ \A m \in 1..n : clist.set.dense[m] # 0

\* C10: no instruction pointer in clist.set or nlist.set refers to a Save.
IsSave(n) == Idx(prog.insts, n).op = "Save"

NoSaveIn(set) == \A n \in 1..Len(set.dense) : ~IsSave(set.dense[n])

NoSaveInThreadSets == NoSaveIn(clist.set) /\ NoSaveIn(nlist.set)

\* C10 amended: add puts the pointer of a Save it follows in the thread
\* set, but stores no thread for it: only the effect of the Save is kept,
\* in the captures add works on, and add goes on to the goto of the Save;
\* when the main loop comes to the pointer of a Save it moves on to the
\* next thread and changes nothing else.
NoThreadAt(list, n) ==
    /\ Idx(list.match_slots, n) = None
    /\ Idx(list.caps, n) = alloc_captures(prog)

SavesAreFollowed ==
    [][/\ (pc = "add_step" /\ ~AlreadyAdded(AddList, ip) /\ IsSave(ip)) =>
             /\ pc' = "add_step"
             /\ ip' = Idx(prog.insts, ip).goto
             /\ contains_ip(AddList'.set, ip)
             /\ NoThreadAt(AddList', ip)
             /\ has_capture(ThreadCaps, Idx(prog.insts, ip).match_slot,
                            Idx(prog.insts, ip).capture_slot) =>
                   capture(ThreadCaps', Idx(prog.insts, ip).match_slot,
                           Idx(prog.insts, ip).capture_slot) = AddAt
       /\ (pc = "for" /\ i < SetLen(clist.set) /\ IsSave(CurIp)) =>
             /\ pc' = "for" /\ i' = i + 1
             /\ NoThreadAt(clist, CurIp)
             /\ UNCHANGED <<captures, matches, matched, clist, nlist, stack,
                            seen_matches, at>>]_vars

\* C10 witness: the main loop is at the pointer of a Save in clist.
LoopAtSave ==
    /\ pc = "for" /\ i < SetLen(clist.set) /\ IsSave(CurIp)
    /\ at > start

\* The instructions compile / compile_reverse produce for the expression and
\* direction of this run when no limit stands in the way.
Unlimited ==
    (IF compiler.reverse
     THEN compile_reverse(NewCompiler(DefaultSizeLimit), ast)
     ELSE compile(NewCompiler(DefaultSizeLimit), ast)).insts

TooBig(insts, size_limit) == Len(insts) * InstSize > size_limit

\* C11 as stated: compile and compile_reverse return CompiledTooBig(size_limit)
\* whenever the resulting program times the instruction size exceeds
\* size_limit, a returned program never exceeds the limit, and a failure
\* returns the error alone.
CompileEnforcesSizeLimit ==
    pc = "compiled" =>
        /\ TooBig(Unlimited, compiler.size_limit)
              => compiled = Err(CompiledTooBig(compiler.size_limit))
        /\ compiled.ok => ~TooBig(compiled.v.insts, compiler.size_limit)
        /\ ~compiled.ok => compiled = Err(CompiledTooBig(compiler.size_limit))

\* C11, what the code gives: the size is checked each time c returns for a
\* sub-expression other than an empty alternation, and not after the final
\* Save(1) and Match. A failure returns CompiledTooBig(size_limit) alone and
\* happens only when the program is over the limit; a program without its
\* last two instructions over the limit is refused; a returned program is
\* over the limit by at most two instructions (three for the empty
\* alternation, compiled with no check at all).
CompileChecksAllButTheTail ==
    pc = "compiled" =>
        /\ ~compiled.ok =>
              /\ compiled = Err(CompiledTooBig(compiler.size_limit))
              /\ TooBig(Unlimited, compiler.size_limit)
        /\ compiled.ok =>
              /\ compiled.v.insts = Unlimited
              /\ ast # Alternate(<<>>)
                    => ~TooBig(SubSeq(Unlimited, 1, Len(Unlimited) - 2),
                               compiler.size_limit)
              /\ ~TooBig(SubSeq(Unlimited, 1, Len(Unlimited) - 3),
                         compiler.size_limit)

\* C11 witness: a compilation refused part-way, the compiler holding some
\* instructions of which the caller gets none.
RefusedPartWay ==
    /\ pc = "compiled"
    /\ compiled = Err(CompiledTooBig(compiler.size_limit))
    /\ Len(compiler.insts) > 1
    /\ Len(compiler.insts) < Len(Unlimited)

\* The targets of an instruction of the compiler: both of a Split, the one
\* of a Jump.
Targets(inst) ==
    CASE inst.op = "Split" -> {inst.x, inst.y}
      [] inst.op = "Jump" -> {inst.x}
      [] OTHER -> {}

\* C12: in a program compile or compile_reverse returns, no Split and no
\* Jump still has the target 0 that empty_split and empty_jump gave it
\* (instruction 0 is the Save of slot 0, which nothing jumps to): every
\* placeholder has been patched, whatever the expression.
NoPlaceholderLeft ==
    (pc = "compiled" /\ compiled.ok) =>
        \A n \in 1..Len(compiled.v.insts) : 0 \notin Targets(compiled.v.insts[n])

\* C12 witness: a returned program with at least two Splits and two Jumps.
SplitsAndJumpsPatched ==
    /\ pc = "compiled"
    /\ compiled.ok
    /\ Cardinality({n \in 1..Len(compiled.v.insts) :
                       compiled.v.insts[n].op = "Split"}) >= 2
    /\ Cardinality({n \in 1..Len(compiled.v.insts) :
                       compiled.v.insts[n].op = "Jump"}) >= 2

\* C13: in a program compile or compile_reverse returns, every target of a
\* Split or Jump is the index of an instruction of that program.
TargetsInsideProgram ==
    (pc = "compiled" /\ compiled.ok) =>
        \A n \in 1..Len(compiled.v.insts) :
            \A t \in Targets(compiled.v.insts[n]) :
                t >= 0 /\ t < Len(compiled.v.insts)

\* C13 witness: the expression ends with a repetition or alternation, so a
\* Split or Jump was patched with the address one past the last instruction
\* then emitted, where compile goes on to push Save(1).
TargetWasTheEnd ==
    /\ pc = "compiled"
    /\ compiled.ok
    /\ \E n \in 1..Len(compiled.v.insts) :
          /\ Len(compiled.v.insts) - 2 \in Targets(compiled.v.insts[n])
          /\ compiled.v.insts[Len(compiled.v.insts) - 1] = ISave(1)

\* C14: for a program with anchored_begin, the top of the loop calls add for
\* instruction 0 only at the beginning of the text, and leaves the loop when
\* it finds the thread set empty past the beginning; so every span such a
\* program reports begins at position 0, and ^foo does not match barfoo.
AnchoredSeedsOnlyAtBeginning ==
    [][prog.anchored_begin =>
          /\ (pc = "loop" /\ pc' = "add") => is_beginning(at')
          /\ (pc = "loop" /\ SetIsEmpty(clist.set) /\ ~is_beginning(at))
                => (pc' = "return" /\ at' = at /\ clist' = clist)
          /\ (pc' = "done" /\ ret') =>
                /\ \A k \in 1..Len(matches') :
                      matches'[k] => capture(captures', k - 1, 0) = 0
                /\ \E k \in 1..Len(Jobs[job]) : Ends(text, Jobs[job][k], 0) # {}
          /\ (pc' = "done" /\ Jobs[job] = AnchoredExample /\ text = AnchoredText)
                => ~ret']_vars

\* C14 witness: an anchored program at the top of the loop past the
\* beginning, with no thread left, no match and text still ahead.
AnchoredStopsPastBeginning ==
    /\ prog.anchored_begin
    /\ pc = "loop"
    /\ ~is_beginning(at)
    /\ at < Len(text)
    /\ SetIsEmpty(clist.set)
    /\ ~matched

\* C17 as stated: at each position at which the main loop goes on, a thread
\* at instruction 0 is injected if and only if no match has been recorded
\* yet and the program is not anchored.
SeedsIffUnmatchedAndUnanchored ==
    [][(pc = "loop" /\ pc' # "return")
          => ((pc' = "add") <=> (~matched /\ ~prog.anchored_begin))]_vars

\* C17, what the code gives: at a position at which the main loop goes on,
\* a thread at instruction 0 is injected if and only if the thread set is
\* empty or no match has been recorded yet and the program is not anchored.
\* For a program that is not anchored that is: if and only if no match has
\* been recorded yet; for an anchored one: if and only if the thread set is
\* empty, which happens at the beginning of the text only.
SeedsIffEmptyOrUnmatchedAndUnanchored ==
    [][(pc = "loop" /\ pc' # "return") =>
          /\ (pc' = "add") <=> (SetIsEmpty(clist.set)
                                  \/ (~matched /\ ~prog.anchored_begin))
          /\ (pc' = "add") <=> (IF prog.anchored_begin
                                THEN SetIsEmpty(clist.set) /\ is_beginning(at)
                                ELSE ~matched)
          /\ (pc' = "add") =>
                (stack' = <<FrameIP(0)>> /\ caller' = "seed"
                 /\ match_slot' = None)]_vars

\* C17 witness: an anchored program about to be seeded at the beginning of
\* a text it goes on to match.
AnchoredProgramSeeded ==
    /\ prog.anchored_begin
    /\ pc = "add" /\ caller = "seed" /\ stack = <<FrameIP(0)>>
    /\ is_beginning(at)
    /\ Ends(text, Jobs[job][1], 0) # {}

\* An instruction of the compiler moved by d addresses.
Shift(inst, d) ==
    CASE inst.op = "Split" -> ISplit(inst.x + d, inst.y + d)
      [] inst.op = "Jump" -> IJump(inst.x + d)
      [] OTHER -> inst

\* The program C15 describes for e{min,max}: Save(0), min copies of the
\* code of e, then max - min times a Split followed by a copy of e, the
\* Split's targets being the copy after it and the address `end` after the
\* last copy, where Save(1) and Match stand.  The code of e is what compile
\* gives for e alone, without its Save(0), Save(1) and Match.
RangeLayout(r) ==
    LET E == compile(NewCompiler(DefaultSizeLimit), r.e).insts
        L == Len(E) - 3
        body(b) == [n \in 1..L |-> Shift(E[n + 1], b - 1)]
        opt == 1 + r.min * L
        end == opt + (r.max - r.min) * (L + 1)
        inst(a) ==
            IF a < opt
            THEN body(1 + ((a - 1) \div L) * L)[((a - 1) % L) + 1]
            ELSE LET o == (a - opt) % (L + 1)
                     split == a - o
                 IN IF o = 0
                    THEN IF r.greedy THEN ISplit(split + 1, end)
                         ELSE ISplit(end, split + 1)
                    ELSE body(split + 1)[o]
    IN [n \in 1..(end + 2) |->
           IF n = 1 THEN ISave(0)
           ELSE IF n = end + 1 THEN ISave(1)
           ELSE IF n = end + 2 THEN IMatch
           ELSE inst(n - 1)]

IsBoundedRange(res) ==
    /\ Len(res) = 1
    /\ res[1].k = "Repeat" /\ res[1].r = "Range" /\ res[1].max # None

\* The counts k in min..max for which k consecutive matches of r.e begin at
\* position p of txt.
Counts(txt, r, p) ==
    {k \in r.min..r.max : EndsTimes(txt, r.e, {p}, k) # {}}

NonWord == {" ", "!"}
WordBefore(p) == p > 0 /\ text[p] \notin NonWord
WordAfter(p) == p < Len(text) /\ text[p + 1] \notin NonWord

\* C16: when add_step comes to a WordBoundary at position p it goes on to
\* the assertion's goto exactly when the character before p and the one
\* after p differ in being word characters, a missing neighbour counting as
\* none; to that of a NotWordBoundary exactly when they do not differ.
\* Otherwise nothing is pushed, ip stays on the assertion, now in the thread
\* set, and the next iteration returns.  \bword\b matches "a word!" at (2,6)
\* and does not match "sword".
WordBoundaryFollowedIffSidesDiffer ==
    [][/\ (/\ pc = "add_step"
           /\ ~AlreadyAdded(AddList, ip)
           /\ Idx(prog.insts, ip).op = "EmptyLook"
           /\ Idx(prog.insts, ip).look \in {"WordBoundary", "NotWordBoundary"})
          => LET inst == Idx(prog.insts, ip)
                 differ == WordBefore(AddAt) # WordAfter(AddAt)
                 holds == IF inst.look = "WordBoundary" THEN differ
                          ELSE ~differ
             IN /\ pc' = "add_step"
                /\ stack' = stack
                /\ holds => ip' = inst.goto
                /\ ~holds => (ip' = ip /\ AlreadyAdded(AddList', ip'))
       /\ (pc' = "done" /\ Jobs[job] = WordExample /\ Len(text) = 7)
             => /\ ret' = (start <= 2)
                /\ ret' => Span(captures', 0) = <<2, 6>>
       /\ (pc' = "done" /\ Jobs[job] = WordExample /\ Len(text) = 5)
             => ~ret']_vars

\* C16 witness: \bword\b has matched "a word!", add having met the first
\* assertion unsatisfied at position 1 and both satisfied after.
WordExampleMatched ==
    /\ Jobs[job] = WordExample
    /\ text = <<"a", " ", "w", "o", "r", "d", "!">>
    /\ start = 1
    /\ pc = "done" /\ ret

\* The for loop is about to step a Match instruction.
SteppingAMatch ==
    /\ pc = "for"
    /\ i < SetLen(clist.set)
    /\ ~SkipThread(clist, seen_matches, CurIp)
    /\ Idx(prog.insts, CurIp).op = "Match"

\* C18 as stated: when a Match is stepped at a position, a single-pattern
\* execution steps no further thread of clist there and goes on to the
\* threads of nlist at the next position, and a set execution goes on with
\* the rest of clist.
MatchEndsThePositionOnly ==
    [][/\ SteppingAMatch =>
            IF Len(matches) = 1
            THEN pc' = "after" /\ nlist' = nlist
            ELSE pc' = "for" /\ i' = i + 1 /\ clist' = clist
       /\ (pc = "after" /\ ~is_end(text, at)) =>
            (pc' = "loop" /\ at' = at + 1 /\ clist'.set = nlist.set)]_vars

\* C18, what the code gives: the above unless quit_after_first_match is
\* set, in which case exec returns when the Match is stepped, single
\* pattern or set, and the threads of nlist and the rest of clist are
\* dropped.  A Match stepped replaces the row of its sub-pattern in the
\* sink by the captures of its thread, also when a match was recorded
\* before.
MatchEndsThePositionUnlessQuit ==
    [][/\ SteppingAMatch =>
            /\ IF quit THEN pc' = "return"
               ELSE IF Len(matches) = 1
               THEN pc' = "after" /\ nlist' = nlist
               ELSE pc' = "for" /\ i' = i + 1 /\ clist' = clist
            /\ LET ms == Idx(prog.insts, CurIp).match_slot
               IN \A cs \in 0..(prog.caps_len[ms + 1] - 1) :
                     has_capture(Idx(clist.caps, CurIp), ms, cs) =>
                        capture(captures', ms, cs)
                           = capture(Idx(clist.caps, CurIp), ms, cs)
       /\ (pc = "after" /\ ~is_end(text, at)) =>
            (pc' = "loop" /\ at' = at + 1 /\ clist'.set = nlist.set)
       /\ (pc = "after" /\ Len(matches) = 1 /\ matched) => ~quit]_vars

\* C18 witness: a single-pattern execution that has recorded a match comes
\* to a Match of a thread carried over in nlist, whose span ends later.
LaterMatchReplaces ==
    /\ SteppingAMatch
    /\ Len(matches) = 1 /\ matched /\ ~quit /\ phase = "first"
    /\ capture(Idx(clist.caps, CurIp), 0, 1) > capture(captures, 0, 1)

\* C19: within one position no sub-pattern is recorded twice: a Match(k) is
\* stepped only when k is not in seen_matches, which then gets k and never
\* holds an entry twice; a thread whose match slot is in seen_matches is
\* passed over with no effect but the move to the next thread; and
\* seen_matches is empty each time the for loop starts at a position.
SubPatternRecordedOncePerPosition ==
    [][/\ SteppingAMatch =>
            LET k == Idx(prog.insts, CurIp).match_slot
            IN /\ ~contains_ip(seen_matches, k)
               /\ contains_ip(seen_matches', k)
               /\ matches'[k + 1]
       /\ NoDuplicates(seen_matches')
       /\ (/\ pc = "for"
           /\ i < SetLen(clist.set)
           /\ Idx(clist.match_slots, CurIp) # None
           /\ contains_ip(seen_matches, Idx(clist.match_slots, CurIp)))
            => /\ pc' = "for" /\ i' = i + 1
               /\ UNCHANGED <<captures, matches, matched, seen_matches, clist,
                              nlist, stack>>
       /\ (pc # "for" /\ pc' = "for") =>
            (caller' = "step" \/ i' = 0)
       /\ (pc # "for" /\ pc' = "for" /\ i' = 0 /\ (pc = "loop" \/ caller = "seed"))
            => SetIsEmpty(seen_matches')]_vars

\* C19 witness: in a set execution a thread of a sub-pattern that has
\* matched at this position is about to be skipped, while a sub-pattern
\* after it has not matched here yet.
ThreadOfMatchedSubPatternSkipped ==
    /\ pc = "for"
    /\ i < SetLen(clist.set)
    /\ SkipThread(clist, seen_matches, CurIp)
    /\ Len(matches) > 1
    /\ Idx(clist.match_slots, CurIp) = 0
    /\ ~contains_ip(seen_matches, 1)

\* C20: with quit_after_first_match set, the first Match stepped (no match
\* recorded, no flag raised before it) takes exec out of the main loop:
\* nothing is added to nlist, the position stays, the next step is the
\* return and the value returned is true; and the value returned in the
\* end equals that of the execution on the same program, input and start
\* with the other value of the flag.
QuitReturnsAtFirstMatchSameResult ==
    [][/\ (quit /\ SteppingAMatch) =>
            /\ ~matched
            /\ \A k \in 1..Len(matches) : ~matches[k]
            /\ matched'
            /\ pc' = "return"
            /\ UNCHANGED <<at, i, clist, nlist, stack>>
       /\ pc = "return" => (pc' = "done" /\ ret' = matched)
       /\ (pc' = "done" /\ phase = "flipped") => ret' = first.ret]_vars

\* C20 witness: an execution with the flag set has returned true with text
\* left and a thread left in nlist, after an execution without the flag.
QuitLeftThreadsBehind ==
    /\ pc = "done" /\ phase = "flipped" /\ quit /\ ret
    /\ at < Len(text)
    /\ ~SetIsEmpty(nlist.set)

\* The thread of clist the for loop is at is handed to step.
Stepping ==
    /\ pc = "for"
    /\ i < SetLen(clist.set)
    /\ ~SkipThread(clist, seen_matches, CurIp)

EpsilonOps == {"Save", "Split", "Jump", "EmptyLook"}
ConsumingOps == {"Char", "Ranges", "Bytes", "Match"}

Seeding == caller = "seed" /\ pc \in {"add", "add_step"}

AddReturns == pc = "add" /\ stack = <<>>

\* The capture vector once every capture-restore frame of stk is popped.
RECURSIVE Unwind(_, _)
Unwind(tcaps, stk) ==
    IF stk = <<>> THEN tcaps
    ELSE LET frame == stk[Len(stk)]
             rest == SubSeq(stk, 1, Len(stk) - 1)
         IN IF frame.t = "Capture"
            THEN Unwind(set_capture(tcaps, frame.save.match_slot,
                                    frame.save.capture_slot,
                                    frame.old_capture_slot), rest)
            ELSE Unwind(tcaps, rest)

\* The match slot once every capture-restore frame of stk is popped.
RECURSIVE UnwindSlot(_, _)
UnwindSlot(ms, stk) ==
    IF stk = <<>> THEN ms
    ELSE LET frame == stk[Len(stk)]
             rest == SubSeq(stk, 1, Len(stk) - 1)
         IN UnwindSlot(IF frame.t = "Capture" THEN frame.old_match_slot ELSE ms,
                       rest)

\* The capture vector add works on has the slots of every Save.
HasEverySlot(tcaps) ==
    \A n \in 1..NumInsts :
        prog.insts[n].op = "Save" =>
            has_capture(tcaps, prog.insts[n].match_slot,
                        prog.insts[n].capture_slot)

RECURSIVE AllGreedy(_)
AllGreedy(re) ==
    CASE re.k = "Repeat" -> [re EXCEPT !.e = AllGreedy(@), !.greedy = TRUE]
      [] re.k = "Group" -> [re EXCEPT !.e = AllGreedy(@)]
      [] re.k \in {"Concat", "Alternate"} ->
           [re EXCEPT !.es = [n \in 1..Len(@) |-> AllGreedy(@[n])]]
      [] OTHER -> re

RECURSIVE HasLazy(_)
HasLazy(re) ==
    CASE re.k = "Repeat" -> ~re.greedy \/ HasLazy(re.e)
      [] re.k = "Group" -> HasLazy(re.e)
      [] re.k \in {"Concat", "Alternate"} ->
           \E n \in 1..Len(re.es) : HasLazy(re.es[n])
      [] OTHER -> FALSE

\* The Split at index s prefers the way into the expression it guards: the
\* expression begins right after the Split of ?, *, {min,max} and of an
\* alternation, whose other target lies further on, and it ends right at
\* the Split of +, whose other target is the instruction after it.
EntersFirst(inst, s) ==
    \/ inst.x = s + 1 /\ inst.y >= s + 1
    \/ inst.x <= s /\ inst.y = s + 1

\* C24: the program compile_reverse returns is the one it returns for the
\* expression with every repetition greedy, and each of its Splits has the
\* way into the repeated expression as its first target, whatever the
\* greedy flags of the expression.
ReverseRepeatsAreGreedy ==
    (pc = "compiled" /\ compiler.reverse /\ compiled.ok) =>
        /\ compiled.v.insts =
              compile_reverse(NewCompiler(compiler.size_limit),
                              AllGreedy(ast)).insts
        /\ \A s \in 0..(Len(compiled.v.insts) - 1) :
              Idx(compiled.v.insts, s).op = "Split" =>
                  EntersFirst(Idx(compiled.v.insts, s), s)

\* C24 witness: compile_reverse returned the program of an expression with
\* a lazy repetition, one whose Split compile turns the other way.
LazyCompiledInReverse ==
    /\ pc = "compiled"
    /\ compiler.reverse
    /\ compiled.ok
    /\ HasLazy(ast)
    /\ LET fwd == compile(NewCompiler(DefaultSizeLimit), ast).insts
       IN \E s \in 0..(Len(fwd) - 1) :
             /\ Idx(fwd, s).op = "Split"
             /\ ~EntersFirst(Idx(fwd, s), s)

\* The capturing groups of an expression, as (index, name).
RECURSIVE GroupsOf(_)
GroupsOf(re) ==
    CASE re.k = "Repeat" -> GroupsOf(re.e)
      [] re.k = "Group" ->
           (IF re.i = None THEN {} ELSE {<<re.i, re.name>>}) \cup GroupsOf(re.e)
      [] re.k \in {"Concat", "Alternate"} ->
           UNION {GroupsOf(re.es[n]) : n \in 1..Len(re.es)}
      [] OTHER -> {}

\* How many capturing groups the expression has, each Group node counted.
RECURSIVE CountGroups(_)
RECURSIVE CountGroupsSeq(_)
CountGroups(re) ==
    CASE re.k = "Repeat" -> CountGroups(re.e)
      [] re.k = "Group" -> (IF re.i = None THEN 0 ELSE 1) + CountGroups(re.e)
      [] re.k \in {"Concat", "Alternate"} -> CountGroupsSeq(re.es)
      [] OTHER -> 0
CountGroupsSeq(es) ==
    IF es = <<>> THEN 0 ELSE CountGroups(Head(es)) + CountGroupsSeq(Tail(es))

\* The groups are numbered 1..n, each index once, as the parser does.
WellNumbered(re) ==
    /\ Cardinality(GroupsOf(re)) = CountGroups(re)
    /\ {g[1] : g \in GroupsOf(re)} = 1..CountGroups(re)

NameOfGroup(re, n) == (CHOOSE g \in GroupsOf(re) : g[1] = n)[2]

IsOpeningSave(inst) == inst.op = "Save" /\ inst.n >= 2 /\ inst.n % 2 = 0

\* C25 as stated: after a successful compile the capture-name list has one
\* entry for the overall match and one per capturing group of the
\* expression, entry i being the name of group i.
OneNamePerGroup ==
    (pc = "compiled" /\ ~compiler.reverse /\ compiled.ok /\ WellNumbered(ast)) =>
        /\ Len(compiled.v.cap_names) = 1 + CountGroups(ast)
        /\ compiled.v.cap_names[1] = "None"
        /\ \A n \in 1..CountGroups(ast) :
              compiled.v.cap_names[n + 1] = NameOfGroup(ast, n)

\* C25, what the code gives: the Group arm pushes the name each time it is
\* compiled, and a counted repetition compiles its operand once per copy;
\* so the list has one entry for the overall match and then one entry per
\* opening Save of the program, in the order of the program, which is one
\* per group only when no group stands under a counted repetition that
\* emits other than one copy.
OneNamePerGroupCopy ==
    (pc = "compiled" /\ ~compiler.reverse /\ compiled.ok /\ WellNumbered(ast)) =>
        LET saves == SelectSeq(compiled.v.insts, IsOpeningSave)
        IN /\ Len(compiled.v.cap_names) = 1 + Len(saves)
           /\ compiled.v.cap_names[1] = "None"
           /\ \A n \in 1..Len(saves) :
                 compiled.v.cap_names[n + 1] = NameOfGroup(ast, saves[n].n \div 2)

\* C25 witness: a group under a counted repetition of two copies, followed
\* by a second group: the list has the first name twice, and the name of
\* group 2 is not entry 2.
NameListedTwice ==
    /\ pc = "compiled"
    /\ ~compiler.reverse
    /\ compiled.ok
    /\ WellNumbered(ast)
    /\ CountGroups(ast) = 2
    /\ Len(compiled.v.cap_names) = 4
    /\ compiled.v.cap_names[3] # NameOfGroup(ast, 2)

\* The positions from pos on at which a literal of the prefixes occurs.
Occurrences(txt, prefixes, pos) ==
    {q \in pos..Len(txt) : \E lit \in prefixes : OccursAt(txt, lit, q)}

\* Every match of the program begins with one of its prefix literals.
PrefixesComplete ==
    \A p \in 0..Len(text) :
        (\E k \in 1..Len(Jobs[job]) : Ends(text, Jobs[job][k], p) # {}) =>
            \E lit \in prog.prefixes : OccursAt(text, lit, p)

\* C26: at the top of the loop with no thread left, no match and literal
\* prefixes (and no anchor that ends the search), exec_ goes on at the next
\* occurrence of a prefix literal, and returns without a match if there is
\* none; every match of the program beginning with a prefix literal, the
\* same program without its prefixes returns the same result, flags and
\* captures.
PrefixSkipChangesNothing ==
    [][/\ (/\ pc = "loop"
           /\ SetIsEmpty(clist.set)
           /\ ~matched
           /\ prog.prefixes # {}
           /\ ~(prog.anchored_begin /\ ~is_beginning(at))) =>
             LET hits == Occurrences(text, prog.prefixes, at)
             IN IF hits = {}
                THEN pc' = "return" /\ ~matched' /\ at' = at
                ELSE /\ pc' = "add"
                     /\ at' \in hits
                     /\ \A q \in hits : at' <= q
       /\ (pc = "done" /\ phase = "first" /\ phase' = "unprefixed") =>
             PrefixesComplete
       /\ (pc = "return" /\ phase = "unprefixed" /\ pc' = "done") =>
             /\ ret' = first.ret
             /\ matches' = first.matches
             /\ captures' = first.captures]_vars

\* C26 witness: the execution without prefixes, which seeded at every
\* position, ended with the match the execution with prefixes found after
\* jumping ahead from start.
SkippedToTheSameMatch ==
    /\ pc = "done"
    /\ phase = "unprefixed"
    /\ ret
    /\ first.ret
    /\ capture(captures, 0, 0) > start + 1

\* C27: stepping a Match(i) sets matches[i] and gives each slot of row i of
\* the sink the value of that slot in the thread's row i; the other flags
\* and the other rows of the sink stay as they are.
MatchWritesItsRowOnly ==
    [][SteppingAMatch =>
          LET ms == Idx(prog.insts, CurIp).match_slot
              thread_caps == Idx(clist.caps, CurIp)
          IN /\ Len(matches') = Len(matches)
             /\ Len(captures') = Len(captures)
             /\ matches'[ms + 1]
             /\ Len(captures'[ms + 1]) = Len(captures[ms + 1])
             /\ \A n \in 1..Len(captures[ms + 1]) :
                   captures'[ms + 1][n] = thread_caps[ms + 1][n]
             /\ \A j \in 1..Len(matches) :
                   j # ms + 1 => /\ matches'[j] = matches[j]
                                 /\ captures'[j] = captures[j]]_vars

\* C27 witness: a Match(i) is stepped when another sub-pattern has matched
\* and filled its row, and the thread's copy of that row differs from it.
MatchSteppedBesideFilledRow ==
    /\ SteppingAMatch
    /\ \E j \in 1..Len(matches) :
          /\ j # Idx(prog.insts, CurIp).match_slot + 1
          /\ matches[j]
          /\ captures[j] # Idx(clist.caps, CurIp)[j]
          /\ captures[j] # alloc_captures(prog)[j]

\* The instructions the top-level Splits of the program lead to from
\* instruction n: where the branches of the sub-patterns begin.
RECURSIVE BranchHeads(_)
BranchHeads(n) ==
    IF Idx(prog.insts, n).op = "Split"
    THEN BranchHeads(Idx(prog.insts, n).goto1)
         \cup BranchHeads(Idx(prog.insts, n).goto2)
    ELSE {n}

\* Every sub-pattern branch begins with its own Save.
BranchesBeginWithSave ==
    /\ \A n \in BranchHeads(0) :
          /\ Idx(prog.insts, n).op = "Save"
          /\ Idx(prog.insts, n).capture_slot = 0
    /\ {Idx(prog.insts, n).match_slot : n \in BranchHeads(0)}
          = 0..(NumMatches(prog) - 1)
    /\ Cardinality(BranchHeads(0)) = NumMatches(prog)

\* C28: in a program whose sub-pattern branches each begin with their own
\* Save, the thread the loop finds at a Match(i) has the match slot i, so the
\* unwrap of line 203 does not fail and stepping the Match adds i to
\* seen_matches; this holds too when the sink lacks the slots of the Saves.
ThreadAtMatchHasItsSlot ==
    [][BranchesBeginWithSave =>
          /\ pc' # "panic"
          /\ (/\ pc = "for"
              /\ i < SetLen(clist.set)
              /\ Idx(prog.insts, CurIp).op = "Match") =>
                /\ Idx(clist.match_slots, CurIp)
                      = Idx(prog.insts, CurIp).match_slot
                /\ IF SkipThread(clist, seen_matches, CurIp)
                   THEN seen_matches' = seen_matches
                   ELSE seen_matches' =
                           SetAdd(seen_matches,
                                  Idx(prog.insts, CurIp).match_slot)]_vars

\* C28 witness: with a sink that has no slots, the Match of the second
\* sub-pattern of a set is stepped.
MatchSteppedWithoutSlots ==
    /\ SteppingAMatch
    /\ BranchesBeginWithSave
    /\ phase = "first"
    /\ Idx(prog.insts, CurIp).match_slot >= 1
    /\ \A k \in 1..Len(captures) : captures[k] = <<>>

\* ------------------------------ what a compiled instruction sequence accepts
\* Instruction n of the compiler's program leads without input to: the next
\* instruction (Save), both targets (Split), the target (Jump).
EpsNext(insts, n) ==
    LET inst == Idx(insts, n)
    IN CASE inst.op = "Save" -> {n + 1}
         [] inst.op = "Split" -> {inst.x, inst.y}
         [] inst.op = "Jump" -> {inst.x}
         [] OTHER -> {}

RECURSIVE EpsClose(_, _)
EpsClose(insts, S) ==
    LET T == S \cup UNION {EpsNext(insts, n) : n \in S}
    IN IF T = S THEN S ELSE EpsClose(insts, T)

\* The instructions reached from those of S by consuming ch.
StepSet(insts, S, ch) ==
    {n + 1 : n \in {m \in S :
                      \/ Idx(insts, m).op = "Char" /\ Idx(insts, m).c = ch
                      \/ Idx(insts, m).op = "Ranges" /\ ch \in Idx(insts, m).cs}}

RECURSIVE RunSet(_, _, _)
RunSet(insts, S, w) ==
    IF w = <<>> THEN S
    ELSE RunSet(insts, EpsClose(insts, StepSet(insts, S, Head(w))), Tail(w))

\* The program accepts w: started at instruction 0 it can reach Match
\* having consumed all of w.
Accepts(insts, w) ==
    \E n \in RunSet(insts, EpsClose(insts, {0}), w) : Idx(insts, n).op = "Match"

\* The expression has a look-around assertion.
RECURSIVE HasLookAround(_)
HasLookAround(re) ==
    CASE re.k \in {"StartLine", "EndLine", "StartText", "EndText",
                   "WordBoundary", "NotWordBoundary"} -> TRUE
      [] re.k \in {"Concat", "Alternate"} ->
           \E n \in 1..Len(re.es) : HasLookAround(re.es[n])
      [] re.k \in {"Group", "Repeat"} -> HasLookAround(re.e)
      [] OTHER -> FALSE

\* w read backwards.
Reversed(w) == [n \in 1..Len(w) |-> w[Len(w) + 1 - n]]

\* C29: for an expression without look-around assertions, the program
\* compile_reverse returns accepts w exactly when the program compile
\* returns for the same expression accepts w read backwards.
ReverseProgramAcceptsReversedStrings ==
    (/\ pc = "compiled"
     /\ compiler.reverse
     /\ compiled.ok
     /\ compiler.size_limit = DefaultSizeLimit
     /\ ~HasLookAround(ast)) =>
        LET forward == compile(NewCompiler(DefaultSizeLimit), ast).insts
        IN \A w \in Texts :
              Accepts(compiled.v.insts, w) <=> Accepts(forward, Reversed(w))

\* C29 witness: compile_reverse returned a program that accepts a string
\* the forward program rejects, the forward program accepting it backwards.
ReverseProgramAcceptsAnother ==
    /\ pc = "compiled"
    /\ compiler.reverse
    /\ compiled.ok
    /\ compiler.size_limit = DefaultSizeLimit
    /\ ~HasLookAround(ast)
    /\ LET forward == compile(NewCompiler(DefaultSizeLimit), ast).insts
       IN \E w \in Texts :
             /\ Accepts(compiled.v.insts, w)
             /\ ~Accepts(forward, w)
             /\ Accepts(forward, Reversed(w))

====
